---- MODULE Spec2Model ----
(***************************************************************************)
(* A model of the menu generation engine of proj2 (menu_generation.py),    *)
(* its text-generation backend (llm_toolkit.py), and of the web layer that  *)
(* uses it (Flask_app.py: parse_generated_menu, generate_plan,             *)
(* admin_update_status, admin_update_ticket_status; models.OrderStatus).   *)
(*                                                                         *)
(* Python strings are sequences of one-character strings, so that          *)
(* formatting, splitting, trimming and regular-expression matching are     *)
(* computed character by character as the code computes them.              *)
(***************************************************************************)
EXTENDS Integers, Sequences, FiniteSets, TLC

(***************************************************************************)
(* Bounds of the model.                                                    *)
(***************************************************************************)
\* number_of_days ranges over 0..MaxDays
MaxDays == 2
\* the longest backend text given to format_llm_output on its own
MaxText == 4
\* the most bracketed pieces in a plan given to parse_generated_menu on its own
MaxPieces == 3
\* the days generate_plan asks update_menu for (number_of_days=7 in the code)
PlanDays == 1
\* the requests one session makes to /generate_plan
MaxRequests == 1

(***************************************************************************)
(* Program constants.                                                      *)
(***************************************************************************)
MAX_LLM_TRIES == 3
LLM_ATTRIBUTE_ERROR == -1
ITEM_CHOICES == 10
DAYS_OF_WEEK == <<"Mon", "Tue", "Wed", "Thu", "Fri", "Sat", "Sun">>
BREAKFAST_TIME == 1000
LUNCH_TIME == 1400
DINNER_TIME == 2000

(***************************************************************************)
(* Python str and int primitives.                                          *)
(***************************************************************************)
Digits == <<"0", "1", "2", "3", "4", "5", "6", "7", "8", "9">>

IsDigit(c) == \E i \in 1..10 : Digits[i] = c

DigitVal(c) == (CHOOSE i \in 1..10 : Digits[i] = c) - 1

\* int(s) for a string of decimal digits
RECURSIVE StrToInt(_)
StrToInt(s) ==
    IF Len(s) = 0 THEN 0
    ELSE 10 * StrToInt(SubSeq(s, 1, Len(s) - 1)) + DigitVal(s[Len(s)])

\* str(n) for n >= 0
RECURSIVE IntToStr(_)
IntToStr(n) ==
    IF n < 10 THEN <<Digits[n + 1]>>
    ELSE IntToStr(n \div 10) \o <<Digits[(n % 10) + 1]>>

\* "%0<w>d" % n
RECURSIVE ZeroPad(_, _)
ZeroPad(s, w) == IF Len(s) >= w THEN s ELSE ZeroPad(<<"0">> \o s, w)

\* s.split(sep) for a one-character separator
RECURSIVE SplitFrom(_, _, _, _)
SplitFrom(s, sep, i, cur) ==
    IF i > Len(s) THEN <<cur>>
    ELSE IF s[i] = sep THEN <<cur>> \o SplitFrom(s, sep, i + 1, <<>>)
    ELSE SplitFrom(s, sep, i + 1, Append(cur, s[i]))

Split(s, sep) == SplitFrom(s, sep, 1, <<>>)

IsSpace(c) == c \in {" ", "\t", "\n"}

\* s.strip()
RECURSIVE LStrip(_)
LStrip(s) == IF Len(s) > 0 /\ IsSpace(s[1]) THEN LStrip(Tail(s)) ELSE s

RECURSIVE RStrip(_)
RStrip(s) ==
    IF Len(s) > 0 /\ IsSpace(s[Len(s)]) THEN RStrip(SubSeq(s, 1, Len(s) - 1)) ELSE s

Strip(s) == RStrip(LStrip(s))

UpperCase == <<"A", "B", "C", "D", "E", "F", "G", "H", "I", "J", "K", "L", "M",
               "N", "O", "P", "Q", "R", "S", "T", "U", "V", "W", "X", "Y", "Z">>
LowerCase == <<"a", "b", "c", "d", "e", "f", "g", "h", "i", "j", "k", "l", "m",
               "n", "o", "p", "q", "r", "s", "t", "u", "v", "w", "x", "y", "z">>

LowerChar(c) ==
    IF \E i \in 1..26 : UpperCase[i] = c
    THEN LowerCase[CHOOSE i \in 1..26 : UpperCase[i] = c]
    ELSE c

\* s.lower()
Lower(s) == [i \in 1..Len(s) |-> LowerChar(s[i])]

\* lit occurs in s at position i
MatchLit(s, i, lit) ==
    /\ i >= 1
    /\ i + Len(lit) - 1 <= Len(s)
    /\ SubSeq(s, i, i + Len(lit) - 1) = lit

\* the position after the longest run of digits of s that starts at i (\d*)
RECURSIVE DigitRunEnd(_, _)
DigitRunEnd(s, i) ==
    IF i <= Len(s) /\ IsDigit(s[i]) THEN DigitRunEnd(s, i + 1) ELSE i

\* the position after the longest run of whitespace of s that starts at i (\s*)
RECURSIVE SpaceRunEnd(_, _)
SpaceRunEnd(s, i) ==
    IF i <= Len(s) /\ IsSpace(s[i]) THEN SpaceRunEnd(s, i + 1) ELSE i

(***************************************************************************)
(* datetime: the proleptic Gregorian calendar as datetime.datetime,        *)
(* timedelta(days=1) and weekday() compute it.                             *)
(***************************************************************************)
IsLeap(y) == (y % 4 = 0) /\ ((y % 100 # 0) \/ (y % 400 = 0))

DaysInMonth(y, m) ==
    IF m = 2 THEN (IF IsLeap(y) THEN 29 ELSE 28)
    ELSE IF m \in {4, 6, 9, 11} THEN 30 ELSE 31

DaysBeforeYear(y) ==
    LET p == y - 1 IN p * 365 + (p \div 4) - (p \div 100) + (p \div 400)

RECURSIVE DaysBeforeMonth(_, _)
DaysBeforeMonth(y, m) ==
    IF m = 1 THEN 0 ELSE DaysBeforeMonth(y, m - 1) + DaysInMonth(y, m - 1)

\* date.toordinal()
Ordinal(ymd) == DaysBeforeYear(ymd[1]) + DaysBeforeMonth(ymd[1], ymd[2]) + ymd[3]

\* date.weekday(): Monday is 0
Weekday(ymd) == (Ordinal(ymd) + 6) % 7

\* a changed get_weekday_and_increment: the day number is increased and the
\* month is left as it is
PlusOneDay_SameMonth(ymd) == <<ymd[1], ymd[2], ymd[3] + 1>>

\* date + datetime.timedelta(days=1)
PlusOneDay(ymd) ==
    IF ymd[3] < DaysInMonth(ymd[1], ymd[2]) THEN <<ymd[1], ymd[2], ymd[3] + 1>>
    ELSE IF ymd[2] < 12 THEN <<ymd[1], ymd[2] + 1, 1>>
    ELSE <<ymd[1] + 1, 1, 1>>

\* strftime("%Y-%m-%d")
Strftime(ymd) ==
    ZeroPad(IntToStr(ymd[1]), 4) \o <<"-">> \o ZeroPad(IntToStr(ymd[2]), 2)
        \o <<"-">> \o ZeroPad(IntToStr(ymd[3]), 2)

\* year, month, day = map(int, date.split("-"))
ParseDate(date) ==
    LET parts == Split(date, "-")
    IN  <<StrToInt(parts[1]), StrToInt(parts[2]), StrToInt(parts[3])>>

\* get_weekday_and_increment(date): <<next date string, weekday name>>
get_weekday_and_increment(date) ==
    LET ymd == ParseDate(date)
    IN  <<Strftime(PlusOneDay(ymd)), DAYS_OF_WEEK[Weekday(ymd) + 1]>>

(***************************************************************************)
(* Values of the tables.  A nullable text column holds PyNone or PyStr(s). *)
(* An hours cell is what the filter can tell apart: SQL NULL (None), the   *)
(* NaN a left join leaves for a missing restaurant, the empty string, text *)
(* that does not start with '{', text that starts with '{' and is not      *)
(* JSON, or a JSON object, given by its weekday keys and their lists.      *)
(***************************************************************************)
PyNone == [isNone |-> TRUE, str |-> <<>>]
PyStr(s) == [isNone |-> FALSE, str |-> s]

DayNames == {DAYS_OF_WEEK[i] : i \in 1..7}
NoLists == [d \in DayNames |-> <<>>]

HoursOf(kind) == [kind |-> kind, keys |-> {}, lists |-> NoLists]
HoursNone == HoursOf("None")
HoursNaN == HoursOf("NaN")
HoursEmpty == HoursOf("empty")
HoursText == HoursOf("text")
HoursBadJson == HoursOf("badjson")
\* the JSON object {day: lists[day] for day in keys}
HoursJson(keys, lists) == [kind |-> "json", keys |-> keys, lists |-> lists]

(***************************************************************************)
(* format_llm_output: the integer of the last run of digits, or -1.        *)
(***************************************************************************)
\* re.findall(r"(\d+)", s): the maximal digit runs of s, left to right
RECURSIVE FindAllDigits(_, _)
FindAllDigits(s, i) ==
    IF i > Len(s) THEN <<>>
    ELSE IF IsDigit(s[i])
         THEN LET e == DigitRunEnd(s, i)
              IN  <<SubSeq(s, i, e - 1)>> \o FindAllDigits(s, e)
         ELSE FindAllDigits(s, i + 1)

\* a changed format_llm_output: the first run of digits is taken
format_llm_output_First(output) ==
    LET matches == FindAllDigits(output, 1)
    IN  IF Len(matches) > 0 THEN StrToInt(matches[1])
        ELSE LLM_ATTRIBUTE_ERROR

format_llm_output(output) ==
    LET matches == FindAllDigits(output, 1)
    IN  IF Len(matches) > 0 THEN StrToInt(matches[Len(matches)])
        ELSE LLM_ATTRIBUTE_ERROR

(***************************************************************************)
(* get_meal_and_order_time: only the order time is read by the model; the  *)
(* meal name goes into the prompt text.  0 stands for the ValueError.      *)
(***************************************************************************)
ValidMeal(meal_number) == meal_number \in {1, 2, 3}

get_meal_and_order_time(meal_number) ==
    CASE meal_number = 1 -> BREAKFAST_TIME
      [] meal_number = 2 -> LUNCH_TIME
      [] meal_number = 3 -> DINNER_TIME
      [] OTHER -> 0

(***************************************************************************)
(* filter_allergens.  A table is a sequence of rows; each row carries its  *)
(* DataFrame index label in the field index.                               *)
(***************************************************************************)
\* [x.strip().lower() for x in s.split(',')]
TagList(s) ==
    LET parts == Split(s, ",")
    IN  [i \in 1..Len(parts) |-> Lower(Strip(parts[i]))]

SeqRange(q) == {q[i] : i \in 1..Len(q)}

\* any(allergen in item_allergens for allergen in user_allergens)
AnyAllergen(item_allergens, user_allergens) ==
    \E i \in 1..Len(user_allergens) :
        \E j \in 1..Len(item_allergens) : user_allergens[i] = item_allergens[j]

\* a changed filter_allergens: the tags are compared without lower()
DropsRow_CaseSensitive(row, allergens) ==
    /\ ~row.allergens.isNone
    /\ \E a \in SeqRange(Split(allergens, ",")),
          t \in SeqRange(Split(row.allergens.str, ",")) : Strip(a) = Strip(t)

\* the row test of the loop body: drop this row?
DropsRow(row, allergens) ==
    /\ ~row.allergens.isNone
    /\ AnyAllergen(TagList(row.allergens.str), TagList(allergens))

\* menu_items.drop(index, inplace=True)
DropLabel(table, label) == SelectSeq(table, LAMBDA r : r.index # label)

\* the loop over menu_items.iterrows(): the rows are those of the table as it
\* was when the loop started
RECURSIVE AllergenLoop(_, _, _, _)
AllergenLoop(rows, i, table, allergens) ==
    IF i > Len(rows) THEN table
    ELSE AllergenLoop(rows, i + 1,
                      IF DropsRow(rows[i], allergens)
                      THEN DropLabel(table, rows[i].index) ELSE table,
                      allergens)

filter_allergens(menu_items, allergens) ==
    IF Len(allergens) = 0 THEN menu_items
    ELSE AllergenLoop(menu_items, 1, menu_items, allergens)

(***************************************************************************)
(* filter_closed_restaurants.                                              *)
(***************************************************************************)
\* restaurant[restaurant["rtr_id"] != rows["rtr_id"]]
RemoveRestaurant(table, rtr_id) == SelectSeq(table, LAMBDA r : r.rtr_id # rtr_id)

\* a changed filter_closed_restaurants: the closing time is excluded
IsOpen_HalfOpen(opening_times, time) ==
    \E x \in 0..((Len(opening_times) \div 2) - 1) :
        opening_times[x * 2 + 1] <= time /\ opening_times[x * 2 + 2] > time

\* the loop over the pairs of an even-length list
IsOpen(opening_times, time) ==
    \E x \in 0..((Len(opening_times) \div 2) - 1) :
        opening_times[x * 2 + 1] <= time /\ opening_times[x * 2 + 2] >= time

\* json.loads(hours_json).get(weekday, [])
OpeningTimes(hours, weekday) ==
    IF weekday \in hours.keys THEN hours.lists[weekday] ELSE <<>>

\* a changed filter_closed_restaurants: an odd list is judged by its pairs
RemovesRestaurant_OddByPairs(hours, weekday, time) ==
    IF hours.kind # "json" THEN FALSE
    ELSE LET opening_times == OpeningTimes(hours, weekday)
         IN  IF Len(opening_times) = 0 THEN TRUE
             ELSE ~(\E x \in 0..((Len(opening_times) \div 2) - 1) :
                       /\ opening_times[x * 2 + 1] <= time
                       /\ opening_times[x * 2 + 2] >= time)

\* a changed filter_closed_restaurants: a row whose hours cannot be read is
\* dropped
RemovesRestaurant_FailClosed(hours, weekday, time) ==
    IF hours.kind \in {"None", "empty"} THEN FALSE
    ELSE IF hours.kind # "json" THEN TRUE
    ELSE LET opening_times == OpeningTimes(hours, weekday)
         IN  IF Len(opening_times) = 0 \/ Len(opening_times) % 2 = 1 THEN TRUE
             ELSE ~IsOpen(opening_times, time)

\* the body of the try block for one row: is the row's restaurant removed?
\* A NaN cell raises on .strip() and text that is not JSON raises in
\* json.loads; the except clause passes, so the restaurant stays.
RemovesRestaurant(hours, weekday, time) ==
    IF hours.kind \in {"None", "empty"} THEN FALSE
    ELSE IF hours.kind \in {"NaN", "badjson"} THEN FALSE
    ELSE IF hours.kind = "text" THEN FALSE
    ELSE LET opening_times == OpeningTimes(hours, weekday)
         IN  IF Len(opening_times) = 0 THEN TRUE
             ELSE IF Len(opening_times) % 2 = 1
                  THEN TRUE
             ELSE IF Len(opening_times) >= 2 THEN ~IsOpen(opening_times, time)
             ELSE TRUE

RECURSIVE ClosedLoop(_, _, _, _, _)
ClosedLoop(rows, i, table, weekday, time) ==
    IF i > Len(rows) THEN table
    ELSE ClosedLoop(rows, i + 1,
                    IF RemovesRestaurant(rows[i].hours, weekday, time)
                    THEN RemoveRestaurant(table, rows[i].rtr_id) ELSE table,
                    weekday, time)

filter_closed_restaurants(restaurant, weekday, time) ==
    ClosedLoop(restaurant, 1, restaurant, weekday, time)

(***************************************************************************)
(* limit_scope: range(n), or a random sample of num_choices positions.     *)
(* The order of a sample is not modelled: the positions are used in        *)
(* increasing order, and every set of num_choices positions can be drawn.  *)
(***************************************************************************)
\* a changed limit_scope: the sample is one short
limit_scope_OneShort(num_items, num_choices) ==
    IF num_items > num_choices
    THEN {S \in SUBSET (0..(num_items - 1)) : Cardinality(S) = num_choices - 1}
    ELSE {0..(num_items - 1)}

limit_scope(num_items, num_choices) ==
    IF num_items > num_choices
    THEN {S \in SUBSET (0..(num_items - 1)) : Cardinality(S) = num_choices}
    ELSE {0..(num_items - 1)}

RECURSIVE SortedSeq(_)
SortedSeq(S) ==
    IF S = {} THEN <<>>
    ELSE LET m == CHOOSE a \in S : \A b \in S : a <= b
         IN  <<m>> \o SortedSeq(S \ {m})

(***************************************************************************)
(* The database the generator is constructed from.  Restaurant 3 is not    *)
(* 'Open' and item 12 is out of stock; restaurant 1 has an odd list on Thu *)
(* and no Fri key, restaurant 2 has NULL hours.                            *)
(***************************************************************************)
Hours1 ==
    HoursJson(DayNames \ {"Fri"},
              [d \in DayNames |->
                  IF d = "Thu" THEN <<1000, 1400, 1800>> ELSE <<900, 2100>>])
Hours3 == HoursJson(DayNames, [d \in DayNames |-> <<0, 2359>>])
Hours4 ==
    HoursJson({"Mon", "Wed", "Sun"},
              [d \in DayNames |->
                  IF d = "Wed" THEN <<1000, 1400>>
                  ELSE IF d = "Mon" THEN <<600, 900, 1900, 2200>>
                  ELSE <<>>])

DbRestaurant ==
    << [rtr_id |-> 1, hours |-> Hours1, status |-> "Open"],
       [rtr_id |-> 2, hours |-> HoursNone, status |-> "NULL"],
       [rtr_id |-> 3, hours |-> Hours3, status |-> "Closed"],
       [rtr_id |-> 4, hours |-> Hours4, status |-> "Open"] >>

Peanuts_Soy == <<"P", "e", "a", "n", "u", "t", "s", ",", " ", "S", "o", "y">>
Gluten == <<"G", "l", "u", "t", "e", "n">>

DbItem(itm_id, rtr_id, allergens, instock) ==
    [itm_id |-> itm_id, rtr_id |-> rtr_id, allergens |-> allergens,
     instock |-> instock]

DbMenuItem ==
    << DbItem(1, 1, PyStr(Gluten), "1"),
       DbItem(2, 1, PyNone, "1"),
       DbItem(3, 1, PyStr(Peanuts_Soy), "1"),
       DbItem(4, 1, PyStr(<<>>), "NULL"),
       DbItem(5, 2, PyNone, "1"),
       DbItem(6, 2, PyStr(Gluten), "1"),
       DbItem(7, 2, PyNone, "1"),
       DbItem(8, 3, PyNone, "1"),
       DbItem(9, 3, PyNone, "1"),
       DbItem(10, 4, PyNone, "1"),
       DbItem(11, 4, PyNone, "1"),
       DbItem(12, 1, PyNone, "0") >>

\* SELECT * FROM MenuItem WHERE instock = 1 OR instock IS NULL
LoadMenuItems(db) == SelectSeq(db, LAMBDA r : r.instock \in {"1", "NULL"})

\* SELECT rtr_id, hours FROM Restaurant WHERE status='Open' OR status IS NULL
LoadRestaurants(db) ==
    LET rows == SelectSeq(db, LAMBDA r : r.status \in {"Open", "NULL"})
    IN  [i \in 1..Len(rows) |-> [rtr_id |-> rows[i].rtr_id, hours |-> rows[i].hours]]

(***************************************************************************)
(* MenuGenerator.__get_context, up to the sample.                          *)
(***************************************************************************)
\* the hours of the first restaurant row with this rtr_id, NaN if there is none
JoinedHours(rests, rtr_id) ==
    IF \E j \in 1..Len(rests) : rests[j].rtr_id = rtr_id
    THEN rests[CHOOSE j \in 1..Len(rests) :
                 /\ rests[j].rtr_id = rtr_id
                 /\ \A k \in 1..(j - 1) : rests[k].rtr_id # rtr_id].hours
    ELSE HoursNaN

\* pd.merge(self.menu_items, self.restaurants, on="rtr_id", how="left"); rtr_id
\* is the key of Restaurant, so every item gives one row
Merge(items, rests) ==
    [i \in 1..Len(items) |->
        [index |-> i - 1, itm_id |-> items[i].itm_id, rtr_id |-> items[i].rtr_id,
         allergens |-> items[i].allergens,
         hours |-> JoinedHours(rests, items[i].rtr_id)]]

\* the table the sample is drawn from
Combined(items, rests, allergens, weekday, order_time) ==
    filter_allergens(
        filter_closed_restaurants(Merge(items, rests), weekday, order_time),
        allergens)

\* a changed __get_context: filter_allergens is given self.menu_items itself
MenuItemsAfterContext_Shared(items, allergens) ==
    IF Len(allergens) = 0 THEN items
    ELSE SelectSeq(items, LAMBDA r : ~DropsRow(r, allergens))

\* self.menu_items after lines 176 to 182: pd.merge builds a new table, the
\* selections of filter_closed_restaurants build new tables, and the drop of
\* filter_allergens acts on the table it is given, which is one of these
MenuItemsAfterContext(items, allergens) == items

\* self.restaurants after lines 176 to 182: only read, by pd.merge
RestaurantsAfterContext(rests) == rests

\* item_ids for the chosen positions (combined.iloc[x] for x in choices)
ItemIdsOf(combined, choices) ==
    LET pos == SortedSeq(choices)
    IN  [i \in 1..Len(pos) |-> combined[pos[i] + 1].itm_id]

(***************************************************************************)
(* MenuGenerator.update_menu: the plan string.                             *)
(***************************************************************************)
\* re.match of \[{date},\d+,{meal_number}\] at position i; the date strings
\* of the model hold digits and '-' only, which the pattern reads literally
EntryAt(menu, i, date, meal_number) ==
    LET head == <<"[">> \o date \o <<",">>
        j == i + Len(head)
        k == DigitRunEnd(menu, j)
    IN  /\ MatchLit(menu, i, head)
        /\ k > j
        /\ MatchLit(menu, k, <<",">> \o IntToStr(meal_number) \o <<"]">>)

\* a changed update_menu: re.match in place of re.search
ReMatchEntry(menu, date, meal_number) == EntryAt(menu, 1, date, meal_number)

\* re.search(pattern, menu)
ReSearchEntry(menu, date, meal_number) ==
    \E i \in 1..Len(menu) : EntryAt(menu, i, date, meal_number)

\* a changed update_menu: the entry is written without its slot number
NewEntry_NoSlot(date, itm_id, meal_number) ==
    <<"[">> \o date \o <<",">> \o IntToStr(itm_id) \o <<"]">>

\* f"[{date},{itm_id},{meal_number}]"
NewEntry(date, itm_id, meal_number) ==
    <<"[">> \o date \o <<",">> \o IntToStr(itm_id) \o <<",">>
        \o IntToStr(meal_number) \o <<"]">>

\* a changed update_menu: the new entry is put in front of the plan
AppendEntry_Front(menu, new_entry) ==
    IF Len(menu) > 0 THEN new_entry \o <<",">> \o menu ELSE new_entry

\* menu = f"{menu},{new_entry}" if len(menu) > 0 else new_entry
AppendEntry(menu, new_entry) ==
    IF Len(menu) > 0 THEN menu \o <<",">> \o new_entry ELSE new_entry

\* a changed __pick_menu_item: the answer is not looked up in item_ids
IsValidSelection_AnyPositive(output, ids) == output > 0

\* output > 0 and output in item_ids
IsValidSelection(output, ids) == output > 0 /\ output \in SeqRange(ids)

\* a changed __pick_menu_item: the loop runs once more
HasAnotherTry_OneMore(tries_done) == tries_done + 1 < MAX_LLM_TRIES + 1

\* the for loop over range(MAX_LLM_TRIES) has another iteration after attempt
\* number tries + 1 has failed
HasAnotherTry(tries_done) == tries_done + 1 < MAX_LLM_TRIES

\* a changed __pick_menu_item: the message quotes the initial llm_output
RaisedOutput_Initial(last_output) == <<>>

\* the output quoted by the RuntimeError of __pick_menu_item
RaisedOutput(last_output) == last_output

(***************************************************************************)
(* Flask_app.parse_generated_menu.  The dict it returns is given as the    *)
(* sequence of its entries in the order they are read: the list of a date  *)
(* holds the entries with that date, in this order.                        *)
(***************************************************************************)
\* \d{4}-\d{2}-\d{2} at position j
DatePatternAt(s, j) ==
    /\ j >= 1
    /\ j + 9 <= Len(s)
    /\ \A k \in {0, 1, 2, 3, 5, 6, 8, 9} : IsDigit(s[j + k])
    /\ s[j + 4] = "-"
    /\ s[j + 7] = "-"

CharAt(s, i) == IF i >= 1 /\ i <= Len(s) THEN s[i] ELSE ""

\* the match of the pattern at position i: <<the position after it, the
\* entry>>, or <<0>> when there is none
EntryMatchAt(s, i) ==
    LET j == SpaceRunEnd(s, i + 1)
        k == SpaceRunEnd(s, j + 10)
        a == SpaceRunEnd(s, k + 1)
        e == DigitRunEnd(s, a)
        b == SpaceRunEnd(s, e)
        c == SpaceRunEnd(s, b + 1)
        f == SpaceRunEnd(s, c + 1)
    IN  IF ~(CharAt(s, i) = "[" /\ DatePatternAt(s, j) /\ CharAt(s, k) = ","
             /\ e > a)
        THEN <<0>>
        ELSE IF CharAt(s, b) = "]"
        THEN <<b + 1, [date |-> SubSeq(s, j, j + 9),
                       itm_id |-> StrToInt(SubSeq(s, a, e - 1)), meal |-> 3]>>
        ELSE IF CharAt(s, b) = "," /\ CharAt(s, c) \in {"1", "2", "3"}
                /\ CharAt(s, f) = "]"
        THEN <<f + 1, [date |-> SubSeq(s, j, j + 9),
                       itm_id |-> StrToInt(SubSeq(s, a, e - 1)),
                       meal |-> StrToInt(<<s[c]>>)]>>
        ELSE <<0>>

\* a changed parse_generated_menu: reading stops at the first text that is
\* not an entry
RECURSIVE FindAllEntries_StopAtBad(_, _)
FindAllEntries_StopAtBad(s, i) ==
    IF i > Len(s) THEN <<>>
    ELSE LET hit == EntryMatchAt(s, i)
         IN  IF hit[1] = 0 THEN <<>>
             ELSE <<hit[2]>> \o FindAllEntries_StopAtBad(s, hit[1])

\* re.findall: the matches from left to right, none overlapping another
RECURSIVE FindAllEntries(_, _)
FindAllEntries(s, i) ==
    IF i > Len(s) THEN <<>>
    ELSE LET hit == EntryMatchAt(s, i)
         IN  IF hit[1] = 0 THEN FindAllEntries(s, i + 1)
             ELSE <<hit[2]>> \o FindAllEntries(s, hit[1])

\* a changed parse_generated_menu: re.search in place of re.findall
parse_generated_menu_FirstOnly(gen_str) ==
    LET all == IF Len(gen_str) = 0 THEN <<>> ELSE FindAllEntries(gen_str, 1)
    IN  IF Len(all) = 0 THEN <<>> ELSE <<all[1]>>

parse_generated_menu(gen_str) ==
    IF Len(gen_str) = 0 THEN <<>> ELSE FindAllEntries(gen_str, 1)

\* parse_generated_menu for an argument that can be None: "if not gen_str"
parse_generated_menu_of(value) ==
    IF value.isNone THEN <<>> ELSE parse_generated_menu(value.str)

(***************************************************************************)
(* The inputs of the model.                                                *)
(***************************************************************************)
\* a Wednesday at a year end, a leap day (Thursday), and a Sunday written
\* without zero padding
StartDates ==
    { <<"2", "0", "2", "5", "-", "1", "2", "-", "3", "1">>,
      <<"2", "0", "2", "4", "-", "0", "2", "-", "2", "9">>,
      <<"2", "0", "2", "5", "-", "1", "-", "5">> }

MealLists == { <<3>>, <<1, 2>>, <<2, 1, 2>> }

UserAllergens == { <<>>, <<"p", "e", "a", "n", "u", "t", "s">> }

\* [date,itm_id] as older plans hold it
LegacyEntry(date, itm_id) ==
    <<"[">> \o date \o <<",">> \o IntToStr(itm_id) \o <<"]">>

\* the plans passed in: empty, an entry of the first day, a first-day entry
\* without a slot number, and an entry of the second day
InputMenus(date) ==
    { <<>>,
      NewEntry(date, 7, 1),
      LegacyEntry(date, 7),
      NewEntry(get_weekday_and_increment(date)[1], 5, 2) }

\* what the backend can answer: no digits, zero, an id, two runs of digits,
\* a two-digit id followed by a newline, a number that is no id
BackendTexts ==
    { <<"x">>, <<"0">>, <<"7">>, <<"7", " ", "3">>, <<"1", "1", "\n">>,
      <<"4", "0">> }

(***************************************************************************)
(* State.                                                                  *)
(***************************************************************************)
VARIABLES
    menu_items,       \* self.menu_items
    restaurants,      \* self.restaurants
    provider,         \* self.generator.provider
    failed_over,      \* history: a hosted call of this generator has raised
    pc,               \* where update_menu is
    menu,             \* update_menu: menu
    allergens,        \* update_menu: allergens
    date,             \* update_menu: date
    next_date,        \* update_menu: next_date
    current_weekday,  \* update_menu: current_weekday
    meal_numbers,     \* update_menu: meal_numbers
    number_of_days,   \* update_menu: number_of_days
    x,                \* update_menu: the day loop's x
    m,                \* update_menu: position of meal_number in meal_numbers
    num_choices,      \* __pick_menu_item: num_choices
    tries,            \* __pick_menu_item: the loop's x
    item_ids,         \* __pick_menu_item: item_ids
    llm_output,       \* __pick_menu_item: llm_output
    error,            \* the exception update_menu raised
    menu_in,          \* history: the plan this call was given
    date_in,          \* history: the start date this call was given
    slot_calls,       \* history: generate calls made for the current slot
    run_calls,        \* history: generate calls made by this call
    last_raw,         \* history: what the last generate call returned
    rerun,            \* history: this call repeats the previous one on its result
    fn_args,          \* the arguments of a function checked on its own
    fn_result,        \* its result
    generated_menu,   \* User.generated_menu of the user of the session
    GeneratedMenu,    \* session["GeneratedMenu"]
    request,          \* the request a handler was last called for
    response,         \* the response it gave, NoResponse while it runs
    requests,         \* history: requests started
    order_status,     \* Order.status of the order
    updates,          \* history: status updates of the order answered with 200
    ticket,           \* Ticket.status and Ticket.response of the ticket
    tickets,          \* the rows of the Ticket table
    inflight          \* the requests admin_update_status is running for

catalog == <<menu_items, restaurants>>
backend == <<provider, failed_over>>
call == <<allergens, meal_numbers, number_of_days, date_in>>
days == <<date, next_date, current_weekday, x>>
pick == <<num_choices, tries, item_ids, llm_output>>
hist == <<menu_in, slot_calls, run_calls, last_raw, rerun>>
fn == <<fn_args, fn_result>>
stored == <<generated_menu, GeneratedMenu>>
desk == <<ticket, tickets, inflight>>
web == <<stored, request, response, requests, order_status, updates, desk>>
vars == <<catalog, backend, pc, menu, call, days, m, pick, error, hist, fn, web>>

NoError == [kind |-> "none", output |-> <<>>]
NoFn == [fn |-> "none"]
NoRequest == [handler |-> "none"]
NoResponse == [code |-> 0]

\* no handler of the web layer is called
NoWeb ==
    /\ generated_menu = <<>>
    /\ GeneratedMenu = <<>>
    /\ request = NoRequest
    /\ response = NoResponse
    /\ requests = 0
    /\ order_status = "NULL"
    /\ updates = 0
    /\ ticket = [status |-> "Open", response |-> PyNone]
    /\ tickets = <<>>
    /\ inflight = <<>>

\* the locals of __pick_menu_item outside a call of it
NoPick ==
    /\ num_choices' = 0
    /\ tries' = 0
    /\ item_ids' = <<>>
    /\ llm_output' = <<>>

\* MenuGenerator.__init__; the provider is chosen by the environment
Init ==
    /\ menu_items = LoadMenuItems(DbMenuItem)
    /\ restaurants = LoadRestaurants(DbRestaurant)
    /\ provider \in {"openai", "local"}
    /\ failed_over = FALSE
    /\ pc = "idle"
    /\ menu = <<>>
    /\ allergens = <<>>
    /\ date = <<>>
    /\ next_date = <<>>
    /\ current_weekday = ""
    /\ meal_numbers = <<>>
    /\ number_of_days = 0
    /\ x = 0
    /\ m = 1
    /\ num_choices = 0
    /\ tries = 0
    /\ item_ids = <<>>
    /\ llm_output = <<>>
    /\ error = NoError
    /\ menu_in = <<>>
    /\ date_in = <<>>
    /\ slot_calls = 0
    /\ run_calls = 0
    /\ last_raw = <<>>
    /\ rerun = FALSE
    /\ fn_args = NoFn
    /\ fn_result = NoFn
    /\ NoWeb

(***************************************************************************)
(* update_menu, step by step.                                              *)
(***************************************************************************)
\* lines 243 to 247: the first weekday, and the plan as a string
EnterUpdateMenu(mu, d, mn, nd, al) ==
    /\ menu' = mu
    /\ menu_in' = mu
    /\ date' = d
    /\ date_in' = d
    /\ next_date' = get_weekday_and_increment(d)[1]
    /\ current_weekday' = get_weekday_and_increment(d)[2]
    /\ meal_numbers' = mn
    /\ number_of_days' = nd
    /\ allergens' = al
    /\ x' = 0
    /\ m' = 1
    /\ NoPick
    /\ error' = NoError
    /\ slot_calls' = 0
    /\ run_calls' = 0
    /\ last_raw' = <<>>
    /\ pc' = "loop"
    /\ UNCHANGED <<catalog, backend, fn, web>>

\* a caller calls update_menu
UpdateMenuCall ==
    /\ pc = "idle"
    /\ \E d \in StartDates, mn \in MealLists, nd \in 0..MaxDays,
          al \in UserAllergens :
          \E mu \in InputMenus(d) : EnterUpdateMenu(mu, d, mn, nd, al)
    /\ rerun' = FALSE

\* a caller passes the plan it got back with the arguments of that call, as
\* generate_plan does with the plan it stored
UpdateMenuAgain ==
    /\ pc = "returned"
    /\ EnterUpdateMenu(menu, date_in, meal_numbers, number_of_days, allergens)
    /\ rerun' = TRUE

\* the caller is done with the plan or the exception it got; the generator
\* and its backend live on
CallEnds ==
    /\ pc \in {"returned", "raised"}
    /\ pc' = "idle"
    /\ menu' = <<>>
    /\ allergens' = <<>>
    /\ date' = <<>>
    /\ next_date' = <<>>
    /\ current_weekday' = ""
    /\ meal_numbers' = <<>>
    /\ number_of_days' = 0
    /\ x' = 0
    /\ m' = 1
    /\ NoPick
    /\ error' = NoError
    /\ menu_in' = <<>>
    /\ date_in' = <<>>
    /\ slot_calls' = 0
    /\ run_calls' = 0
    /\ last_raw' = <<>>
    /\ rerun' = FALSE
    /\ UNCHANGED <<catalog, backend, fn, web>>

InDayLoop == pc = "loop" /\ x < number_of_days
InMealLoop == InDayLoop /\ m <= Len(meal_numbers)

\* lines 252 to 255: the slot is in the plan
SkipExisting ==
    /\ InMealLoop
    /\ ReSearchEntry(menu, date, meal_numbers[m])
    /\ m' = m + 1
    /\ UNCHANGED <<catalog, backend, pc, menu, call, days, pick, error, hist, fn, web>>

\* line 257 and lines 204 to 207: __pick_menu_item is entered
BeginPick ==
    /\ InMealLoop
    /\ ~ReSearchEntry(menu, date, meal_numbers[m])
    /\ ValidMeal(meal_numbers[m])
    /\ num_choices' = ITEM_CHOICES
    /\ llm_output' = <<>>
    /\ tries' = 0
    /\ item_ids' = <<>>
    /\ slot_calls' = 0
    /\ pc' = "context"
    /\ UNCHANGED <<catalog, backend, menu, call, days, m, error, menu_in,
                   run_calls, last_raw, rerun, fn, web>>

\* line 211: the candidates of this attempt
GetContext ==
    /\ pc = "context"
    /\ LET combined == Combined(menu_items, restaurants, allergens, current_weekday,
                                get_meal_and_order_time(meal_numbers[m]))
       IN  \E choices \in limit_scope(Len(combined), num_choices) :
               item_ids' = ItemIdsOf(combined, choices)
    /\ menu_items' = MenuItemsAfterContext(menu_items, allergens)
    /\ restaurants' = RestaurantsAfterContext(restaurants)
    /\ pc' = "generate"
    /\ UNCHANGED <<backend, menu, call, days, m, num_choices, tries,
                   llm_output, error, hist, fn, web>>

\* generate returned text
Generated(text) ==
    /\ llm_output' = text
    /\ last_raw' = text
    /\ slot_calls' = slot_calls + 1
    /\ run_calls' = run_calls + 1
    /\ pc' = "validate"
    /\ UNCHANGED <<catalog, menu, call, days, m, num_choices, tries, item_ids,
                   error, menu_in, rerun, fn, web>>

\* generate raised: nothing in __pick_menu_item or update_menu catches it
GenerateRaised ==
    /\ slot_calls' = slot_calls + 1
    /\ run_calls' = run_calls + 1
    /\ error' = [kind |-> "BackendError", output |-> <<>>]
    /\ pc' = "raised"
    /\ NoPick
    /\ UNCHANGED <<catalog, menu, call, days, m, menu_in, last_raw, rerun, fn, web>>

\* LLM._generate_openai: the hosted call answers
GenerateOpenAI ==
    /\ pc = "generate"
    /\ provider = "openai"
    /\ \E text \in BackendTexts : Generated(Strip(text))
    /\ UNCHANGED backend

\* a changed LLM: a hosted failure is answered by no text, and the loop of
\* __pick_menu_item goes on to its next attempt with the local model
GenerateFallback_NextAttempt ==
    /\ pc = "generate"
    /\ provider = "openai"
    /\ provider' = "local"
    /\ failed_over' = TRUE
    /\ HasAnotherTry(tries)
    /\ slot_calls' = slot_calls + 1
    /\ run_calls' = run_calls + 1
    /\ tries' = tries + 1
    /\ num_choices' = num_choices + ITEM_CHOICES
    /\ pc' = "context"
    /\ UNCHANGED <<catalog, menu, call, days, m, item_ids, llm_output, error,
                   menu_in, last_raw, rerun, fn, web>>

\* a changed LLM: the provider is left as it is when the hosted call raises
GenerateFallback_NotSticky ==
    /\ pc = "generate"
    /\ provider = "openai"
    /\ provider' = "openai"
    /\ failed_over' = TRUE
    /\ \E text \in BackendTexts : Generated(text)

\* LLM._generate_openai: the hosted call raises, the local model answers
GenerateFallback ==
    /\ pc = "generate"
    /\ provider = "openai"
    /\ provider' = "local"
    /\ failed_over' = TRUE
    /\ \E text \in BackendTexts : Generated(text)

\* LLM._generate_openai: the hosted call raises, and so does the local model
GenerateFallbackRaises ==
    /\ pc = "generate"
    /\ provider = "openai"
    /\ provider' = "local"
    /\ failed_over' = TRUE
    /\ GenerateRaised

\* LLM._generate_local answers
GenerateLocal ==
    /\ pc = "generate"
    /\ provider = "local"
    /\ \E text \in BackendTexts : Generated(text)
    /\ UNCHANGED backend

\* LLM._generate_local raises
GenerateLocalRaises ==
    /\ pc = "generate"
    /\ provider = "local"
    /\ GenerateRaised
    /\ UNCHANGED backend

\* lines 223 to 227 and 260 to 264: the answer is one of the candidates
ValidateAccept ==
    /\ pc = "validate"
    /\ IsValidSelection(format_llm_output(llm_output), item_ids)
    /\ menu' = AppendEntry(menu, NewEntry(date, format_llm_output(llm_output),
                                          meal_numbers[m]))
    /\ m' = m + 1
    /\ NoPick
    /\ pc' = "loop"
    /\ UNCHANGED <<catalog, backend, call, days, error, hist, fn, web>>

\* a changed __pick_menu_item: the number of candidates is doubled
GrownChoices_Doubled(n) == 2 * n

\* line 231: num_choices += ITEM_CHOICES
GrownChoices(n) == n + ITEM_CHOICES

\* a changed __pick_menu_item: a slot without candidates is skipped
ValidateRetry_SkipEmpty ==
    /\ pc = "validate"
    /\ ~IsValidSelection(format_llm_output(llm_output), item_ids)
    /\ HasAnotherTry(tries)
    /\ IF item_ids = <<>>
       THEN /\ m' = m + 1
            /\ NoPick
            /\ pc' = "loop"
            /\ UNCHANGED <<catalog, backend, menu, call, days, error, hist, fn, web>>
       ELSE /\ num_choices' = GrownChoices(num_choices)
            /\ tries' = tries + 1
            /\ pc' = "context"
            /\ UNCHANGED <<catalog, backend, menu, call, days, m, item_ids,
                           llm_output, error, hist, fn, web>>

\* lines 230 and 231: the answer is rejected and another attempt follows
ValidateRetry ==
    /\ pc = "validate"
    /\ ~IsValidSelection(format_llm_output(llm_output), item_ids)
    /\ HasAnotherTry(tries)
    /\ num_choices' = GrownChoices(num_choices)
    /\ tries' = tries + 1
    /\ pc' = "context"
    /\ UNCHANGED <<catalog, backend, menu, call, days, m, item_ids, llm_output,
                   error, hist, fn, web>>

\* line 233: the last answer is rejected
ValidateFail ==
    /\ pc = "validate"
    /\ ~IsValidSelection(format_llm_output(llm_output), item_ids)
    /\ ~HasAnotherTry(tries)
    /\ error' = [kind |-> "RuntimeError", output |-> RaisedOutput(llm_output)]
    /\ pc' = "raised"
    /\ NoPick
    /\ UNCHANGED <<catalog, backend, menu, call, days, m, hist, fn, web>>

\* lines 266 and 267: the day's slots are done
NextDay ==
    /\ InDayLoop
    /\ m > Len(meal_numbers)
    /\ date' = next_date
    /\ next_date' = get_weekday_and_increment(next_date)[1]
    /\ current_weekday' = get_weekday_and_increment(next_date)[2]
    /\ x' = x + 1
    /\ m' = 1
    /\ UNCHANGED <<catalog, backend, pc, menu, call, pick, error, hist, fn, web>>

\* line 269
Return ==
    /\ pc = "loop"
    /\ x >= number_of_days
    /\ pc' = "returned"
    /\ UNCHANGED <<catalog, backend, menu, call, days, m, pick, error, hist, fn, web>>

Next ==
    \/ UpdateMenuCall
    \/ UpdateMenuAgain
    \/ CallEnds
    \/ SkipExisting
    \/ BeginPick
    \/ GetContext
    \/ GenerateOpenAI
    \/ GenerateFallback
    \/ GenerateFallbackRaises
    \/ GenerateLocal
    \/ GenerateLocalRaises
    \/ ValidateAccept
    \/ ValidateRetry
    \/ ValidateFail
    \/ NextDay
    \/ Return

Spec == Init /\ [][Next]_vars

(***************************************************************************)
(* Properties of update_menu and __pick_menu_item.                         *)
(***************************************************************************)
InRun == pc \in {"loop", "context", "generate", "validate"}
InPick == pc \in {"context", "generate", "validate"}

\* the plan holds [d,<digits>,slot]
PlanHasEntry(plan, d, slot) ==
    LET pre == <<"[">> \o d \o <<",">>
        suf == <<",">> \o IntToStr(slot) \o <<"]">>
    IN  \E i \in 1..Len(plan) :
            /\ plan[i] = "["
            /\ \E j \in i..Len(plan) :
                   /\ plan[j] = "]"
                   /\ j - i + 1 > Len(pre) + Len(suf)
                   /\ SubSeq(plan, i, i + Len(pre) - 1) = pre
                   /\ SubSeq(plan, j - Len(suf) + 1, j) = suf
                   /\ \A k \in (i + Len(pre))..(j - Len(suf)) : IsDigit(plan[k])

\* C1: every change update_menu makes to the plan is the append of an entry
\* for the current date and slot whose item id is the number read from the
\* answer of this attempt, is positive and is among this attempt's item_ids
C1_AppendedIdWasOffered ==
    [][(InRun /\ menu' # menu) =>
          /\ pc = "validate"
          /\ llm_output = last_raw
          /\ \E id \in SeqRange(item_ids) :
                /\ id > 0
                /\ id = format_llm_output(last_raw)
                /\ menu' = menu \o (IF Len(menu) > 0 THEN <<",">> ELSE <<>>)
                              \o <<"[">> \o date \o <<",">> \o IntToStr(id)
                              \o <<",">> \o IntToStr(meal_numbers[m]) \o <<"]">>]_vars

\* an entry was appended after a rejected answer, by an attempt in which
\* the whole of the loaded catalog was not on offer
C1_Witness ==
    /\ pc = "validate"
    /\ slot_calls > 1
    /\ Len(item_ids) < Len(menu_items)
    /\ IsValidSelection(format_llm_output(llm_output), item_ids)
    /\ Len(menu) > Len(menu_in)

\* how far a slot fill has got: three steps to an attempt
FillProgress ==
    3 * tries + (CASE pc = "context" -> 0 [] pc = "generate" -> 1
                   [] pc = "validate" -> 2 [] OTHER -> 0)

\* C2 as stated: a slot fill that ends without a validated answer has made
\* exactly MAX_LLM_TRIES generate calls and ends with the RuntimeError
C2_EndsValidatedOrFailed ==
    pc = "raised" => (error.kind = "RuntimeError" /\ slot_calls = MAX_LLM_TRIES)

\* C2 amended: at most MAX_LLM_TRIES generate calls are made for a slot; a
\* valid answer ends the fill at once with the entry appended, a rejected
\* answer is followed by another attempt until the third, whose rejection
\* raises the RuntimeError; a generate call that raises ends the fill at
\* that call; and every step of a fill moves it on towards the end of the
\* third attempt, so that no fill goes on for ever
C2_BoundedAttempts ==
    /\ [](/\ slot_calls <= MAX_LLM_TRIES
          /\ pc \in {"context", "generate"} =>
                 (slot_calls = tries /\ tries < MAX_LLM_TRIES)
          /\ pc = "validate" => slot_calls = tries + 1
          /\ (pc = "raised" /\ error.kind = "RuntimeError") =>
                 slot_calls = MAX_LLM_TRIES
          /\ (pc = "raised" /\ error.kind = "BackendError") =>
                 slot_calls \in 1..MAX_LLM_TRIES
          /\ InPick => FillProgress < 3 * MAX_LLM_TRIES)
    /\ [][/\ (pc = "validate"
              /\ format_llm_output(llm_output) > 0
              /\ format_llm_output(llm_output) \in SeqRange(item_ids)) =>
                 (pc' = "loop" /\ menu' # menu /\ m' = m + 1)
          /\ (pc = "validate"
              /\ ~(/\ format_llm_output(llm_output) > 0
                   /\ format_llm_output(llm_output) \in SeqRange(item_ids))) =>
                 IF slot_calls < MAX_LLM_TRIES
                 THEN pc' = "context" /\ menu' = menu
                 ELSE pc' = "raised" /\ error'.kind = "RuntimeError"
          /\ (pc = "generate" /\ pc' = "raised") =>
                 (error'.kind = "BackendError" /\ slot_calls' = slot_calls + 1)
          /\ (pc = "generate" /\ pc' # "raised") =>
                 (pc' = "validate" /\ slot_calls' = slot_calls + 1)]_vars
    /\ [][InPick => (/\ pc' \in {"context", "generate", "validate", "loop", "raised"}
                      /\ InPick' => FillProgress' > FillProgress)]_vars

\* the third answer of a slot is being validated, and the RuntimeError and an
\* exception of the backend have both ended a fill
C2_Witness ==
    /\ pc = "validate"
    /\ slot_calls = MAX_LLM_TRIES
    /\ ~IsValidSelection(format_llm_output(llm_output), item_ids)

\* C3: the third rejected answer of a slot raises the RuntimeError with the
\* raw text of that answer; the slot has no entry, the position in the loops
\* stays at it, and nothing follows but the end of the call
C3_FailureIsFatal ==
    /\ []((pc = "raised" /\ error.kind = "RuntimeError") =>
              /\ slot_calls = MAX_LLM_TRIES
              /\ error.output = last_raw
              /\ x < number_of_days
              /\ m <= Len(meal_numbers)
              /\ ~PlanHasEntry(menu, date, meal_numbers[m]))
    /\ [][/\ (pc = "validate" /\ slot_calls = MAX_LLM_TRIES
              /\ ~(/\ format_llm_output(llm_output) > 0
                   /\ format_llm_output(llm_output) \in SeqRange(item_ids))) =>
                 /\ pc' = "raised"
                 /\ error' = [kind |-> "RuntimeError", output |-> llm_output]
                 /\ menu' = menu
          /\ pc = "raised" =>
                 (pc' = "idle" /\ run_calls' = 0 /\ menu' = <<>>)]_vars

\* the RuntimeError was raised with slots and days of the run still to come
C3_Witness ==
    /\ pc = "raised"
    /\ error.kind = "RuntimeError"
    /\ Len(error.output) > 0
    /\ m < Len(meal_numbers)
    /\ x + 1 < number_of_days

C5_Idempotent ==
    rerun => (run_calls = 0 /\ menu = menu_in /\ pc \in {"loop", "returned"})

\* the repeated call has returned a plan of both days
C5_Witness ==
    /\ rerun
    /\ pc = "returned"
    /\ number_of_days = 2
    /\ Len(meal_numbers) > 1
    /\ PlanHasEntry(menu, date_in, meal_numbers[1])
    /\ PlanHasEntry(menu, get_weekday_and_increment(date_in)[1], meal_numbers[2])

\* every (date, slot) occurs at most once among the entries read
WellFormed(plan) ==
    LET es == parse_generated_menu(plan)
    IN  \A a, b \in 1..Len(es) :
            (es[a].date = es[b].date /\ es[a].meal = es[b].meal) => a = b

\* C6: update_menu turns a plan that parse_generated_menu reads with every
\* (date, slot) at most once into a plan that it reads so too
C6_WellFormedPreserved == (InRun \/ pc = "returned") => (WellFormed(menu_in) => WellFormed(menu))

\* the plan with the prefix and the comma after it taken off
AppendedPart(plan, prefix) ==
    IF Len(prefix) = 0 THEN plan ELSE SubSeq(plan, Len(prefix) + 2, Len(plan))

\* the text between the brackets of the i-th entry of the appended part
EntryBody(pieces, i) ==
    IF i = 1 THEN Tail(pieces[i]) ELSE Tail(Tail(pieces[i]))

FirstPosition(q, v) == CHOOSE i \in 1..Len(q) : q[i] = v /\ \A k \in 1..(i - 1) : q[k] # v

\* <<days after the start date, first position of the slot in meal_numbers>>
\* of the i-th entry of the appended part
EntryKey(pieces, i) ==
    LET f == Split(EntryBody(pieces, i), ",")
    IN  <<Ordinal(ParseDate(f[1])) - Ordinal(ParseDate(date_in)),
          FirstPosition(meal_numbers, StrToInt(f[3]))>>

\* C7: the plan of update_menu starts with the plan passed in, and what
\* follows it are entries joined by commas, of the days of the run, in
\* increasing date and within one date in the order of meal_numbers
C7_OnlyAppendsInOrder ==
    (pc \in {"loop", "context", "generate", "validate", "returned", "raised"}) =>
        /\ Len(menu) >= Len(menu_in)
        /\ SubSeq(menu, 1, Len(menu_in)) = menu_in
        /\ (Len(menu) > Len(menu_in) /\ Len(menu_in) > 0) =>
               menu[Len(menu_in) + 1] = ","
        /\ LET pieces == Split(AppendedPart(menu, menu_in), "]")
               n == Len(pieces) - 1
           IN  /\ pieces[n + 1] = <<>>
               /\ \A i \in 1..n :
                      /\ pieces[i][1] = (IF i = 1 THEN "[" ELSE ",")
                      /\ i > 1 => pieces[i][2] = "["
                      /\ Len(Split(EntryBody(pieces, i), ",")) = 3
                      /\ EntryKey(pieces, i)[1] \in 0..(number_of_days - 1)
               /\ \A i \in 1..(n - 1) :
                      \/ EntryKey(pieces, i)[1] < EntryKey(pieces, i + 1)[1]
                      \/ /\ EntryKey(pieces, i)[1] = EntryKey(pieces, i + 1)[1]
                         /\ EntryKey(pieces, i)[2] < EntryKey(pieces, i + 1)[2]

\* a plan that was not empty has got entries of two days, two of them of
\* one day
C7_Witness ==
    /\ pc = "returned"
    /\ Len(menu_in) > 0
    /\ LET pieces == Split(AppendedPart(menu, menu_in), "]")
       IN  /\ Len(pieces) > 3
           /\ EntryKey(pieces, 1)[1] = EntryKey(pieces, 2)[1]
           /\ EntryKey(pieces, 2)[1] < EntryKey(pieces, 3)[1]

(***************************************************************************)
(* filter_allergens and filter_closed_restaurants called on their own, as  *)
(* the unit tests call them, on tables of two rows.                        *)
(***************************************************************************)
\* no generator is constructed
NoGenerator ==
    /\ menu_items = <<>>
    /\ restaurants = <<>>
    /\ provider = "none"
    /\ failed_over = FALSE
    /\ pc = "none"
    /\ menu = <<>>
    /\ allergens = <<>>
    /\ date = <<>>
    /\ next_date = <<>>
    /\ current_weekday = ""
    /\ meal_numbers = <<>>
    /\ number_of_days = 0
    /\ x = 0
    /\ m = 1
    /\ num_choices = 0
    /\ tries = 0
    /\ item_ids = <<>>
    /\ llm_output = <<>>
    /\ error = NoError
    /\ menu_in = <<>>
    /\ date_in = <<>>
    /\ slot_calls = 0
    /\ run_calls = 0
    /\ last_raw = <<>>
    /\ rerun = FALSE

generator == <<catalog, backend, pc, menu, call, days, m, pick, error, hist>>

\* the allergens column of an item
ItemAllergenValues ==
    { PyNone,
      PyStr(<<>>),
      PyStr(<<"n", "u", "t">>),
      PyStr(<<"N", "u", "t", " ">>),
      PyStr(<<"p", "e", "a", "n", "u", "t">>),
      PyStr(<<"S", "o", "y", ",", " ", "N", "U", "T">>),
      PyStr(<<"s", "o", "y", ",">>),
      PyStr(<<"e", "g", "g", ",", "n", "u", "t", "s">>) }

\* the allergens of a user
UserAllergenValues ==
    { <<>>,
      <<"n", "u", "t">>,
      <<" ", "N", "U", "T">>,
      <<"e", "g", "g", ",", " ", "S", "O", "Y">>,
      <<"p", "e", "a">>,
      <<"n", "u", "t", ",">> }

AllergenTables ==
    { << [index |-> 0, itm_id |-> 1, allergens |-> a],
         [index |-> 1, itm_id |-> 2, allergens |-> b] >> :
      a \in ItemAllergenValues, b \in ItemAllergenValues }

InitAllergens ==
    /\ NoGenerator
    /\ NoWeb
    /\ \E t \in AllergenTables, a \in UserAllergenValues :
           fn_args = [fn |-> "filter_allergens", table |-> t, allergens |-> a]
    /\ fn_result = NoFn

\* the caller's table after the call: drop(index, inplace=True) acts on the
\* table that was passed in, which is also the table returned
ArgumentAfterAllergens(table, user_allergens) ==
    filter_allergens(table, user_allergens)

CallFilterAllergens ==
    /\ fn_args.fn = "filter_allergens"
    /\ fn_result = NoFn
    /\ fn_result' = [fn |-> "returned",
                     value |-> filter_allergens(fn_args.table, fn_args.allergens),
                     argument |-> ArgumentAfterAllergens(fn_args.table,
                                                         fn_args.allergens)]
    /\ UNCHANGED <<generator, web, fn_args>>

SpecAllergens == InitAllergens /\ [][CallFilterAllergens]_vars

\* the lists a weekday can have
DayLists ==
    { <<>>, <<1000>>, <<1000, 2000>>, <<1000, 2000, 2100>>,
      <<800, 900, 1200, 2000>>, <<2000, 1000>> }

\* the hours column of a restaurant: no usable value, no "Mon" key, or a
\* list for "Mon"
HoursValues ==
    { HoursNone, HoursEmpty, HoursText, HoursBadJson, HoursJson({}, NoLists) }
    \cup { HoursJson({"Mon"}, [d \in DayNames |-> IF d = "Mon" THEN l ELSE <<>>]) :
           l \in DayLists }

HoursTables ==
    { << [index |-> 0, rtr_id |-> 1, hours |-> a],
         [index |-> 1, rtr_id |-> 2, hours |-> b] >> :
      a \in HoursValues, b \in HoursValues }

QueryTimes == {900, 1000, 1200, 2000, 2100}

InitClosed ==
    /\ NoGenerator
    /\ NoWeb
    /\ \E t \in HoursTables, w \in {"Mon", "Tue"}, tm \in QueryTimes :
           fn_args = [fn |-> "filter_closed_restaurants", table |-> t,
                      weekday |-> w, time |-> tm]
    /\ fn_result = NoFn

\* the caller's table after the call: every selection of lines 130 to 145
\* builds a new table and binds the local name to it
ArgumentAfterClosed(restaurant) == restaurant

CallFilterClosed ==
    /\ fn_args.fn = "filter_closed_restaurants"
    /\ fn_result = NoFn
    /\ fn_result' = [fn |-> "returned",
                     value |-> filter_closed_restaurants(fn_args.table,
                                   fn_args.weekday, fn_args.time),
                     argument |-> ArgumentAfterClosed(fn_args.table)]
    /\ UNCHANGED <<generator, web, fn_args>>

SpecClosed == InitClosed /\ [][CallFilterClosed]_vars

(***************************************************************************)
(* Properties of the filters.                                              *)
(***************************************************************************)
Returned == fn_result.fn = "returned"

\* the rows of the argument that are in the result
Kept(row) == \E k \in 1..Len(fn_result.value) : fn_result.value[k] = row

\* the tags of a comma-separated text: every stretch between two commas (or
\* an end of the text), trimmed and in lower case
TagSet(s) ==
    { Lower(Strip(SubSeq(s, i, j))) :
        <<i, j>> \in { ij \in (1..(Len(s) + 1)) \X (0..Len(s)) :
                         /\ ij[2] >= ij[1] - 1
                         /\ (ij[1] = 1 \/ s[ij[1] - 1] = ",")
                         /\ (ij[2] = Len(s) \/ s[ij[2] + 1] = ",")
                         /\ \A k \in ij[1]..ij[2] : s[k] # "," } }

Nut == <<"n", "u", "t">>

\* C8: with a list of user allergens that is not empty the result holds, in
\* their order, the rows with no allergens value or with no tag equal to a
\* tag of the user; a tag that only contains a user's tag does not count;
\* with the empty list the result is the table
C8_FilterAllergensExact ==
    (fn_args.fn = "filter_allergens" /\ Returned) =>
        LET t == fn_args.table
            a == fn_args.allergens
        IN  IF Len(a) = 0 THEN fn_result.value = t
            ELSE /\ fn_result.value =
                      SelectSeq(t, LAMBDA r :
                          \/ r.allergens.isNone
                          \/ TagSet(r.allergens.str) \cap TagSet(a) = {})
                 /\ \A i \in 1..Len(t) :
                        /\ t[i].allergens.isNone => Kept(t[i])
                        /\ (a = Nut /\ t[i].allergens
                                = PyStr(<<"p", "e", "a", "n", "u", "t">>)) =>
                               Kept(t[i])
                        /\ (a = Nut /\ ~t[i].allergens.isNone
                            /\ Lower(Strip(t[i].allergens.str)) = Nut) =>
                               ~Kept(t[i])

\* a row was removed for a tag that differs in case and spacing from the
\* user's, and a row whose tag contains the user's was kept
C8_Witness ==
    /\ fn_args.fn = "filter_allergens"
    /\ Returned
    /\ fn_args.allergens = <<" ", "N", "U", "T">>
    /\ fn_args.table[1].allergens = PyStr(<<"S", "o", "y", ",", " ", "N", "U", "T">>)
    /\ fn_args.table[2].allergens = PyStr(<<"p", "e", "a", "n", "u", "t">>)
    /\ ~Kept(fn_args.table[1])
    /\ Kept(fn_args.table[2])

\* the rows whose hours are a JSON object
JsonRows == {i \in 1..Len(fn_args.table) : fn_args.table[i].hours.kind = "json"}

\* the list of a row for the weekday asked for, empty when the key is missing
ListOf(i) ==
    LET h == fn_args.table[i].hours
    IN  IF fn_args.weekday \in h.keys THEN h.lists[fn_args.weekday] ELSE <<>>

\* some pair (list[2i], list[2i+1]) of the list holds the time
SomePairHolds(l, t) ==
    \E i \in 0..Len(l) : 2 * i + 2 <= Len(l) /\ l[2 * i + 1] <= t /\ t <= l[2 * i + 2]

\* C9 as stated: a restaurant is kept if and only if its list for the
\* weekday is not empty and some pair of it holds the time
C9_KeptIffSomePair ==
    (fn_args.fn = "filter_closed_restaurants" /\ Returned) =>
        \A i \in JsonRows :
            Kept(fn_args.table[i]) <=>
                (Len(ListOf(i)) > 0 /\ SomePairHolds(ListOf(i), fn_args.time))

\* C9 amended: a restaurant is kept if and only if its list for the weekday
\* is not empty, has even length, and some pair of it holds the time, both
\* ends counting
C9_KeptIffEvenAndSomePair ==
    (fn_args.fn = "filter_closed_restaurants" /\ Returned) =>
        \A i \in JsonRows :
            Kept(fn_args.table[i]) <=>
                /\ Len(ListOf(i)) > 0
                /\ Len(ListOf(i)) % 2 = 0
                /\ SomePairHolds(ListOf(i), fn_args.time)

\* a restaurant was kept at its closing time, and one was removed at a time
\* outside both of its pairs
C9_Witness ==
    /\ fn_args.fn = "filter_closed_restaurants"
    /\ Returned
    /\ fn_args.weekday = "Mon"
    /\ fn_args.time = 2000
    /\ 1 \in JsonRows /\ 2 \in JsonRows
    /\ ListOf(1) = <<1000, 2000>>
    /\ ListOf(2) = <<2000, 1000>>
    /\ Kept(fn_args.table[1])
    /\ ~Kept(fn_args.table[2])

\* C10: a restaurant whose list for the weekday has odd length is not in
\* the result, whatever the time, and the call returns a table
C10_OddListRemoved ==
    (fn_args.fn = "filter_closed_restaurants" /\ fn_result # NoFn) =>
        /\ Returned
        /\ Len(fn_result.value) <= Len(fn_args.table)
        /\ \A i \in JsonRows : Len(ListOf(i)) % 2 = 1 => ~Kept(fn_args.table[i])

\* a restaurant with a list of three was removed at a time inside the pair
\* the list starts with
C10_Witness ==
    /\ fn_args.fn = "filter_closed_restaurants"
    /\ Returned
    /\ \E i \in JsonRows :
           /\ ListOf(i) = <<1000, 2000, 2100>>
           /\ fn_args.time = 1200
           /\ ~Kept(fn_args.table[i])

(***************************************************************************)
(* Properties of the catalog.                                              *)
(***************************************************************************)
\* the restaurant of an item of the database
RestaurantOf(itm_id) ==
    DbMenuItem[CHOOSE i \in 1..Len(DbMenuItem) : DbMenuItem[i].itm_id = itm_id].rtr_id

\* the restaurants the Restaurant query leaves out for their status
LeftOut ==
    {DbRestaurant[i].rtr_id : i \in 1..Len(DbRestaurant)}
        \ {restaurants[i].rtr_id : i \in 1..Len(restaurants)}

\* C11: no item of a restaurant that the Restaurant query left out for its
\* status is among the candidates of an attempt
C11_LeftOutRestaurantNeverOffered ==
    \A i \in 1..Len(item_ids) : RestaurantOf(item_ids[i]) \notin LeftOut

\* C17: menu_items and restaurants are at every point of every call of
\* update_menu, and after it, the tables __init__ loaded
C17_CatalogUnchanged ==
    /\ menu_items = LoadMenuItems(DbMenuItem)
    /\ restaurants = LoadRestaurants(DbRestaurant)

\* a second call on this generator has filled a slot after rows were dropped
\* for the user's allergens in the first call, and a call has failed after
\* filling a slot
C17_Witness ==
    /\ Len(allergens) > 0
    /\ \/ rerun /\ pc = "returned" /\ Len(menu) > 0
       \/ pc = "raised" /\ error.kind = "RuntimeError" /\ menu # menu_in
    /\ C17_CatalogUnchanged

(***************************************************************************)
(* Lines 223 to 226 of __pick_menu_item on their own: the answer of the    *)
(* backend is read and looked up among the candidates.                     *)
(***************************************************************************)
TextChars == {"7", "1", "0", " ", "x"}

\* the texts of up to MaxText characters
BoundedTexts ==
    UNION { [1..n -> TextChars] : n \in 0..MaxText }

CandidateLists == { <<>>, <<7>>, <<1, 17>> }

InitValidate ==
    /\ NoGenerator
    /\ NoWeb
    /\ \E t \in BoundedTexts, ids \in CandidateLists :
           fn_args = [fn |-> "validate", llm_output |-> t, item_ids |-> ids]
    /\ fn_result = NoFn

CallValidate ==
    /\ fn_args.fn = "validate"
    /\ fn_result = NoFn
    /\ LET output == format_llm_output(fn_args.llm_output)
       IN  fn_result' = [fn |-> "returned", value |-> output,
                         accepted |-> IsValidSelection(output, fn_args.item_ids)]
    /\ UNCHANGED <<generator, web, fn_args>>

SpecValidate == InitValidate /\ [][CallValidate]_vars

HasDigit(s) == \E j \in 1..Len(s) : IsDigit(s[j])

\* the position of the last digit of a text that has one
LastDigit(s) ==
    CHOOSE j \in 1..Len(s) : IsDigit(s[j]) /\ \A k \in (j + 1)..Len(s) : ~IsDigit(s[k])

\* where the run of digits that ends at j starts
RunStart(s, j) ==
    CHOOSE i \in 1..j :
        /\ \A k \in i..j : IsDigit(s[k])
        /\ i = 1 \/ ~IsDigit(s[i - 1])

RECURSIVE Pow10(_)
Pow10(n) == IF n = 0 THEN 1 ELSE 10 * Pow10(n - 1)

\* the number written by the digits at i..j
RECURSIVE DecimalValue(_, _, _)
DecimalValue(s, i, j) ==
    IF i > j THEN 0
    ELSE DigitVal(s[i]) * Pow10(j - i) + DecimalValue(s, i + 1, j)

LastRunValue(s) == DecimalValue(s, RunStart(s, LastDigit(s)), LastDigit(s))

\* C12: the value read from a text is the number written by its last
\* maximal run of digits, or -1 when it has no digit; the answer is accepted
\* only when that value is positive and among the candidates, whatever
\* earlier runs of digits the text holds
C12_LastDigitRunDecides ==
    (fn_args.fn = "validate" /\ Returned) =>
        LET t == fn_args.llm_output
            ids == SeqRange(fn_args.item_ids)
        IN  IF HasDigit(t)
            THEN /\ fn_result.value = LastRunValue(t)
                 /\ fn_result.accepted <=>
                        (LastRunValue(t) > 0 /\ LastRunValue(t) \in ids)
            ELSE /\ fn_result.value = -1
                 /\ ~fn_result.accepted

\* a text whose first run of digits is a candidate and whose last is not
\* was rejected
C12_Witness ==
    /\ fn_args.fn = "validate"
    /\ Returned
    /\ fn_args.llm_output = <<"7", " ", "1">>
    /\ fn_args.item_ids = <<7>>
    /\ fn_result.value = 1
    /\ ~fn_result.accepted

(***************************************************************************)
(* models.OrderStatus.                                                     *)
(***************************************************************************)
ORDERED == "Ordered"
PREPARING == "Preparing"
DELIVERING == "Delivering"
DELIVERED == "Delivered"

VALID_STATUSES == <<ORDERED, PREPARING, DELIVERING, DELIVERED>>

TRANSITIONS ==
    [c \in SeqRange(VALID_STATUSES) |->
        CASE c = ORDERED -> <<PREPARING, DELIVERED>>
          [] c = PREPARING -> <<DELIVERING, DELIVERED>>
          [] c = DELIVERING -> <<DELIVERED>>
          [] OTHER -> <<>>]

is_valid_status(status) == status \in SeqRange(VALID_STATUSES)

\* the place of a status in VALID_STATUSES, 0 for any other value
StatusRank(status) ==
    IF is_valid_status(status)
    THEN CHOOSE i \in 1..Len(VALID_STATUSES) : VALID_STATUSES[i] = status
    ELSE 0

\* a changed is_valid_transition: every step forward is allowed
is_valid_transition_AnyForward(current_status, new_status) ==
    /\ StatusRank(current_status) > 0
    /\ StatusRank(new_status) > StatusRank(current_status)

is_valid_transition(current_status, new_status) ==
    IF current_status \notin DOMAIN TRANSITIONS THEN FALSE
    ELSE new_status \in SeqRange(TRANSITIONS[current_status])

\* the values a caller can pass for a status: the four statuses, other
\* text, the empty string and None
StatusValues ==
    SeqRange(VALID_STATUSES) \cup {"Cancelled", "ordered", "", "None"}

InitTransition ==
    /\ NoGenerator
    /\ NoWeb
    /\ \E c \in StatusValues, n \in StatusValues :
           fn_args = [fn |-> "is_valid_transition", current_status |-> c,
                      new_status |-> n]
    /\ fn_result = NoFn

CallTransition ==
    /\ fn_args.fn = "is_valid_transition"
    /\ fn_result = NoFn
    /\ fn_result' = [fn |-> "returned",
                     value |-> is_valid_transition(fn_args.current_status,
                                                   fn_args.new_status)]
    /\ UNCHANGED <<generator, web, fn_args>>

SpecTransition == InitTransition /\ [][CallTransition]_vars

\* C18: is_valid_transition is true for Ordered to Preparing, Ordered to
\* Delivered, Preparing to Delivering, Preparing to Delivered and Delivering
\* to Delivered, and false for every other pair of values
C18_FiveTransitions ==
    (fn_args.fn = "is_valid_transition" /\ Returned) =>
        (fn_result.value <=>
            <<fn_args.current_status, fn_args.new_status>> \in
                { <<"Ordered", "Preparing">>, <<"Ordered", "Delivered">>,
                  <<"Preparing", "Delivering">>, <<"Preparing", "Delivered">>,
                  <<"Delivering", "Delivered">> })

\* the step from Ordered to Delivering, which skips Preparing, was refused
C18_Witness ==
    /\ fn_args.fn = "is_valid_transition"
    /\ Returned
    /\ fn_args.current_status = "Ordered"
    /\ fn_args.new_status = "Delivering"
    /\ ~fn_result.value

(***************************************************************************)
(* parse_generated_menu called on its own, on None, on the empty string    *)
(* and on plans put together from bracketed pieces, some of them entries.  *)
(***************************************************************************)
Jan5 == <<"2", "0", "2", "5", "-", "0", "1", "-", "0", "5">>
Jan6 == <<"2", "0", "2", "5", "-", "0", "1", "-", "0", "6">>

\* a piece of text with the entries parse_generated_menu is to read from it
Piece(text, entries) == [text |-> text, entries |-> entries]

\* two entries (the second without a slot and with blanks), a slot number
\* outside 1..3, text that is no entry, a date without zero padding, and a
\* slot of two digits
Pieces ==
    { Piece(NewEntry(Jan5, 7, 1), <<[date |-> Jan5, itm_id |-> 7, meal |-> 1]>>),
      Piece(<<"[", " ">> \o Jan6 \o <<" ", ",", " ", "1", "2", " ", "]">>,
            <<[date |-> Jan6, itm_id |-> 12, meal |-> 3]>>),
      Piece(NewEntry(Jan5, 7, 4), <<>>),
      Piece(<<"[", "b", "a", "d", " ", "d", "a", "t", "a", "]">>, <<>>),
      Piece(NewEntry(<<"2", "0", "2", "5", "-", "1", "-", "5">>, 7, 1), <<>>),
      Piece(NewEntry(Jan5, 7, 12), <<>>) }

RECURSIVE JoinPieces(_)
JoinPieces(ps) ==
    IF Len(ps) = 0 THEN <<>>
    ELSE IF Len(ps) = 1 THEN ps[1].text
    ELSE ps[1].text \o <<",">> \o JoinPieces(Tail(ps))

RECURSIVE EntriesOfPieces(_)
EntriesOfPieces(ps) ==
    IF Len(ps) = 0 THEN <<>> ELSE ps[1].entries \o EntriesOfPieces(Tail(ps))

InitParse ==
    /\ NoGenerator
    /\ NoWeb
    /\ \/ fn_args = [fn |-> "parse_generated_menu", pieces |-> <<>>,
                     gen_str |-> PyNone]
       \/ \E n \in 0..MaxPieces : \E ps \in [1..n -> Pieces] :
              fn_args = [fn |-> "parse_generated_menu", pieces |-> ps,
                         gen_str |-> PyStr(JoinPieces(ps))]
    /\ fn_result = NoFn

CallParse ==
    /\ fn_args.fn = "parse_generated_menu"
    /\ fn_result = NoFn
    /\ fn_result' = [fn |-> "returned",
                     value |-> parse_generated_menu_of(fn_args.gen_str)]
    /\ UNCHANGED <<generator, web, fn_args>>

SpecParse == InitParse /\ [][CallParse]_vars

\* C14: parse_generated_menu returns for every argument; for None, for the
\* empty string and for text without an entry the result is empty, and for
\* a plan of several pieces the result holds the entries of the pieces that
\* are entries, in their order, and nothing for the others
C14_BadEntriesDropped ==
    (fn_args.fn = "parse_generated_menu" /\ fn_result # NoFn) =>
        /\ Returned
        /\ fn_result.value = EntriesOfPieces(fn_args.pieces)
        /\ (fn_args.gen_str.isNone \/ Len(fn_args.gen_str.str) = 0) =>
               fn_result.value = <<>>
        /\ (\A i \in 1..Len(fn_args.pieces) : fn_args.pieces[i].entries = <<>>) =>
               fn_result.value = <<>>

\* an entry before and an entry after a piece with slot number 4 were read
C14_Witness ==
    /\ fn_args.fn = "parse_generated_menu"
    /\ Returned
    /\ Len(fn_args.pieces) = 3
    /\ fn_args.pieces[2].text = NewEntry(Jan5, 7, 4)
    /\ fn_result.value = <<[date |-> Jan5, itm_id |-> 7, meal |-> 1],
                           [date |-> Jan6, itm_id |-> 12, meal |-> 3]>>

(***************************************************************************)
(* The plan update_menu writes, read back by parse_generated_menu.         *)
(***************************************************************************)
\* the start date of the call is in zero-padded YYYY-MM-DD form
PaddedStart == DatePatternAt(date_in, 1) /\ Len(date_in) = 10

\* C13: in a call that started from the empty plan with a zero-padded start
\* date, the empty plan reads as no entry and every append adds to what
\* parse_generated_menu reads exactly the entry appended, with its date, id
\* and slot, at the end; so the plan reads as the appended entries in append
\* order.  A plan that is one entry [date,id] reads as that entry in slot 3.
C13_RoundTrip ==
    /\ [](/\ (InRun /\ menu_in = <<>> /\ menu = <<>>) =>
                 parse_generated_menu(menu) = <<>>
          /\ (InRun /\ PaddedStart /\ menu_in = LegacyEntry(date_in, 7)) =>
                 parse_generated_menu(menu_in) =
                     <<[date |-> date_in, itm_id |-> 7, meal |-> 3]>>)
    /\ [][(pc = "validate" /\ menu_in = <<>> /\ PaddedStart /\ menu' # menu) =>
              parse_generated_menu(menu') =
                  Append(parse_generated_menu(menu),
                         [date |-> date,
                          itm_id |-> format_llm_output(llm_output),
                          meal |-> meal_numbers[m]])]_vars

\* a call from the empty plan has returned a plan of four entries over two
\* dates, and they are read back
C13_Witness ==
    /\ pc = "returned"
    /\ menu_in = <<>>
    /\ PaddedStart
    /\ meal_numbers = <<1, 2>>
    /\ Len(parse_generated_menu(menu)) = 4
    /\ parse_generated_menu(menu)[1].date = date_in
    /\ parse_generated_menu(menu)[4].date # date_in
    /\ parse_generated_menu(menu)[4].meal = 2

(***************************************************************************)
(* Flask_app.generate_plan: a MenuGenerator is constructed for the request, *)
(* update_menu runs on the stored plan, and its result is stored.          *)
(***************************************************************************)
\* date.today() + 1 day in isoformat(), which is zero-padded
PlanDates == {d \in StartDates : Len(d) = 10}

\* the plans a user has stored
StoredPlans == UNION {InputMenus(d) : d \in PlanDates}

InitPlan ==
    /\ NoGenerator
    /\ fn_args = NoFn
    /\ fn_result = NoFn
    /\ generated_menu \in StoredPlans
    /\ GeneratedMenu \in {generated_menu, <<>>}
    /\ request = NoRequest
    /\ response = NoResponse
    /\ requests = 0
    /\ order_status = "NULL"
    /\ updates = 0
    /\ ticket = [status |-> "Open", response |-> PyNone]
    /\ tickets = <<>>
    /\ inflight = <<>>

\* lines 1154 to 1162: no session, or no row of the user
GeneratePlanRefused ==
    /\ pc = "none"
    /\ requests < MaxRequests
    /\ \E Username \in BOOLEAN, user \in BOOLEAN :
           /\ ~(Username /\ user)
           /\ request' = [handler |-> "generate_plan", Username |-> Username,
                          user |-> user]
           /\ response' = [code |-> IF Username THEN 404 ELSE 401, ok |-> FALSE]
    /\ requests' = requests + 1
    /\ UNCHANGED <<generator, fn, stored, order_status, updates, desk>>

\* lines 1154 to 1168: the user is read and a MenuGenerator is constructed
GeneratePlanBegin ==
    /\ pc = "none"
    /\ requests < MaxRequests
    /\ request' = [handler |-> "generate_plan", Username |-> TRUE, user |-> TRUE]
    /\ response' = NoResponse
    /\ requests' = requests + 1
    /\ menu_items' = LoadMenuItems(DbMenuItem)
    /\ restaurants' = LoadRestaurants(DbRestaurant)
    /\ provider' \in {"openai", "local"}
    /\ failed_over' = FALSE
    /\ pc' = "idle"
    /\ menu' = <<>>
    /\ allergens' = <<>>
    /\ date' = <<>>
    /\ next_date' = <<>>
    /\ current_weekday' = ""
    /\ meal_numbers' = <<>>
    /\ number_of_days' = 0
    /\ x' = 0
    /\ m' = 1
    /\ NoPick
    /\ error' = NoError
    /\ menu_in' = <<>>
    /\ date_in' = <<>>
    /\ slot_calls' = 0
    /\ run_calls' = 0
    /\ last_raw' = <<>>
    /\ rerun' = FALSE
    /\ UNCHANGED <<fn, stored, order_status, updates, desk>>

\* lines 1171 to 1182: update_menu is called on the stored plan
GeneratePlanUpdateMenu ==
    /\ pc = "idle"
    /\ request.handler = "generate_plan"
    /\ response = NoResponse
    /\ \E d \in PlanDates, al \in UserAllergens :
           EnterUpdateMenu(generated_menu, d, <<1, 2, 3>>, PlanDays, al)
    /\ rerun' = FALSE

\* a changed generate_plan: the plan as far as it got is stored on failure
StoredAfterFailure_Partial(before, partial) == partial

\* the except clause stores nothing
StoredAfterFailure(before, partial) == before

\* lines 1185 to 1189: update_menu has returned
PlanSaved ==
    /\ pc = "returned"
    /\ request.handler = "generate_plan"
    /\ generated_menu' = menu
    /\ GeneratedMenu' = menu
    /\ response' = [code |-> 200, ok |-> TRUE]
    /\ pc' = "none"
    /\ UNCHANGED <<catalog, backend, menu, call, days, m, pick, error, hist, fn,
                   request, requests, order_status, updates, desk>>

\* lines 1191 to 1193: update_menu has raised
PlanFailed ==
    /\ pc = "raised"
    /\ request.handler = "generate_plan"
    /\ generated_menu' = StoredAfterFailure(generated_menu, menu)
    /\ GeneratedMenu' = StoredAfterFailure(GeneratedMenu, menu)
    /\ response' = [code |-> 500, ok |-> FALSE]
    /\ pc' = "none"
    /\ UNCHANGED <<catalog, backend, menu, call, days, m, pick, error, hist, fn,
                   request, requests, order_status, updates, desk>>

NextPlan ==
    \/ GeneratePlanRefused
    \/ GeneratePlanBegin
    \/ GeneratePlanUpdateMenu
    \/ PlanSaved
    \/ PlanFailed
    \/ SkipExisting
    \/ BeginPick
    \/ GetContext
    \/ GenerateOpenAI
    \/ GenerateFallback
    \/ GenerateFallbackRaises
    \/ GenerateLocal
    \/ GenerateLocalRaises
    \/ ValidateAccept
    \/ ValidateRetry
    \/ ValidateFail
    \/ NextDay
    \/ Return

SpecPlan == InitPlan /\ [][NextPlan]_vars

\* C15: the stored plan and the plan of the session change only when
\* update_menu has returned and the request is answered with 200; when
\* update_menu has raised, the request is answered with an error and both
\* keep their values, whatever update_menu had appended
C15_FailureStoresNothing ==
    /\ [][(generated_menu' # generated_menu \/ GeneratedMenu' # GeneratedMenu) =>
              (pc = "returned" /\ response'.code = 200)]_vars
    /\ [][(pc = "raised" /\ pc' # "raised") =>
              /\ response'.code = 500
              /\ ~response'.ok
              /\ generated_menu' = generated_menu
              /\ GeneratedMenu' = GeneratedMenu]_vars

\* a request has failed for three rejected answers after update_menu had
\* appended an entry, and the stored plan is the one from before
C15_Witness ==
    /\ request.handler = "generate_plan"
    /\ response.code = 500
    /\ error.kind = "RuntimeError"
    /\ menu # menu_in
    /\ menu_in # <<>>
    /\ generated_menu = menu_in
    /\ GeneratedMenu = menu_in

(***************************************************************************)
(* Properties of LLM.generate.                                             *)
(***************************************************************************)
\* the step of a generate call whose hosted call raises
HostedRaises == pc = "generate" /\ provider = "openai" /\ provider' = "local"

\* C16 as stated: a generate call whose hosted call raises returns the text
\* of the local model to its caller
C16_FailoverNeverRaises ==
    [][HostedRaises => pc' = "validate"]_vars

\* C16 amended: a generate call whose hosted call raises is one call of the
\* slot; it either returns the text of the local model as it is, for the
\* candidates the attempt had, and the attempt goes on to be validated, or
\* it raises what the local model raised
C16_FailoverOnce ==
    [][HostedRaises =>
          /\ slot_calls' = slot_calls + 1
          /\ run_calls' = run_calls + 1
          /\ \/ /\ pc' = "validate"
                /\ llm_output' \in BackendTexts
                /\ last_raw' = llm_output'
                /\ tries' = tries
                /\ item_ids' = item_ids
                /\ error' = NoError
             \/ /\ pc' = "raised"
                /\ error'.kind = "BackendError"
                /\ menu' = menu]_vars

\* the hosted call raised in the second attempt of a slot and the local
\* model's text is about to be validated in that attempt
C16_Witness ==
    /\ failed_over
    /\ provider = "local"
    /\ pc = "validate"
    /\ tries = 1
    /\ slot_calls = 2
    /\ llm_output = <<"1", "1", "\n">>

(***************************************************************************)
(* Flask_app.admin_update_status, one request at a time, on the order with *)
(* ord_id 1.                                                               *)
(***************************************************************************)
\* int(payload.get(...) or 0) for the values a payload can hold: text that
\* is no number raises ValueError, a missing value gives 0
ParseId(v) ==
    CASE v = "abc" -> [ok |-> FALSE, id |-> 0]
      [] v = "None" -> [ok |-> TRUE, id |-> 0]
      [] v = "1" -> [ok |-> TRUE, id |-> 1]
      [] OTHER -> [ok |-> TRUE, id |-> 2]

IdValues == {"abc", "None", "1", "2"}

\* the requests: the session, the body, and the payload
StatusRequests ==
    [handler : {"admin_update_status"}, Username : BOOLEAN, is_admin : BOOLEAN,
     is_json : BOOLEAN, ord_id : IdValues, new_status : StatusValues]

\* a changed admin_update_status: the stored status is not read
CurrentStatus_Ordered(status) == "Ordered"

\* order_row[1] or "Ordered"
CurrentStatus(status) == IF status \in {"NULL", ""} THEN "Ordered" ELSE status

\* the status code of the response to a request
StatusCode(req, status) ==
    IF ~req.Username THEN 401
    ELSE IF ~req.is_admin THEN 403
    ELSE IF ~req.is_json THEN 400
    ELSE IF ~ParseId(req.ord_id).ok THEN 400
    ELSE IF ParseId(req.ord_id).id <= 0 THEN 400
    ELSE IF req.new_status \in {"", "None"} THEN 400
    ELSE IF ~is_valid_status(req.new_status) THEN 400
    ELSE IF ParseId(req.ord_id).id # 1 THEN 404
    ELSE IF ~is_valid_transition(CurrentStatus(status), req.new_status) THEN 400
    ELSE 200

InitOrder ==
    /\ NoGenerator
    /\ fn_args = NoFn
    /\ fn_result = NoFn
    /\ generated_menu = <<>>
    /\ GeneratedMenu = <<>>
    /\ request = NoRequest
    /\ response = NoResponse
    /\ requests = 0
    /\ order_status \in {"NULL", "Ordered"}
    /\ updates = 0
    /\ ticket = [status |-> "Open", response |-> PyNone]
    /\ tickets = <<>>
    /\ inflight = <<>>

\* a changed admin_update_status: the UPDATE is made before the checks
StoredStatus_BeforeChecks(code, status, new_status) ==
    IF is_valid_status(new_status) THEN new_status ELSE status

\* Order.status after the request: the UPDATE of line 1281 is reached only
\* by a request that passed every check
StoredStatus(code, status, new_status) ==
    IF code = 200 THEN new_status ELSE status

admin_update_status ==
    /\ \E req \in StatusRequests :
           LET code == StatusCode(req, order_status)
           IN  /\ request' = req
               /\ response' = [code |-> code, ok |-> code = 200,
                               new_status |-> IF code = 200 THEN req.new_status
                                              ELSE ""]
               /\ order_status' = StoredStatus(code, order_status, req.new_status)
               /\ updates' = IF code = 200 THEN updates + 1 ELSE updates
    /\ UNCHANGED <<generator, fn, stored, requests, desk>>

SpecOrder == InitOrder /\ [][admin_update_status]_vars

\* the request got as far as the order: an admin's JSON request with the id
\* of the order
ReachesOrder(req) ==
    req.Username /\ req.is_admin /\ req.is_json /\ ParseId(req.ord_id).id = 1

VALID_TICKET_STATUSES == <<"Open", "In Progress", "Resolved", "Closed">>

\* absent, empty, and a text
ResponseTexts == {PyNone, PyStr(<<>>), PyStr(<<"o", "k">>)}

\* "if response_text"
Truthy(v) == ~v.isNone /\ Len(v.str) > 0

TicketRequests ==
    [handler : {"admin_update_ticket_status"}, Username : BOOLEAN,
     is_admin : BOOLEAN, is_json : BOOLEAN, ticket_id : IdValues,
     new_status : SeqRange(VALID_TICKET_STATUSES) \cup {"Done", ""},
     response : ResponseTexts]

TicketCode(req) ==
    IF ~req.Username THEN 401
    ELSE IF ~req.is_admin THEN 403
    ELSE IF ~req.is_json THEN 400
    ELSE IF ~ParseId(req.ticket_id).ok THEN 400
    ELSE IF ParseId(req.ticket_id).id <= 0 THEN 400
    ELSE IF req.new_status = "" THEN 400
    ELSE IF req.new_status \notin SeqRange(VALID_TICKET_STATUSES) THEN 400
    ELSE IF ParseId(req.ticket_id).id # 1 THEN 404
    ELSE 200

\* a changed admin_update_ticket_status: the requested status is stored
FinalStatus_Requested(response_text, status, new_status) == new_status

\* final_status, with current_status = ticket_row[1] or "Open"
FinalStatus(response_text, status, new_status) ==
    LET current_status == IF status = "" THEN "Open" ELSE status
    IN  IF Truthy(response_text) /\ current_status = "Open" THEN "In Progress"
        ELSE new_status

InitTicket ==
    /\ NoGenerator
    /\ fn_args = NoFn
    /\ fn_result = NoFn
    /\ generated_menu = <<>>
    /\ GeneratedMenu = <<>>
    /\ request = NoRequest
    /\ response = NoResponse
    /\ requests = 0
    /\ order_status = "NULL"
    /\ updates = 0
    /\ ticket = [status |-> "Open", response |-> PyNone]
    /\ tickets = <<>>
    /\ inflight = <<>>

admin_update_ticket_status ==
    /\ \E req \in TicketRequests :
           LET code == TicketCode(req)
               final_status == FinalStatus(req.response, ticket.status, req.new_status)
           IN  /\ request' = req
               /\ response' = [code |-> code, ok |-> code = 200,
                               new_status |-> IF code = 200 THEN final_status
                                              ELSE ""]
               /\ ticket' = IF code # 200 THEN ticket
                            ELSE [status |-> final_status,
                                  response |-> IF Truthy(req.response)
                                               THEN req.response
                                               ELSE ticket.response]
    /\ UNCHANGED <<generator, fn, stored, requests, order_status, updates, tickets,
                   inflight>>

SpecTicket == InitTicket /\ [][admin_update_ticket_status]_vars

\* C20: in a request answered with 200, the status stored and the status
\* returned are "In Progress" when the request has a response text that is
\* not empty and the ticket was Open, whatever status was asked for, and
\* the status asked for in every other case
C20_OpenWithResponseInProgress ==
    [][response'.code = 200 =>
          IF Truthy(request'.response) /\ ticket.status = "Open"
          THEN ticket'.status = "In Progress"
               /\ response'.new_status = "In Progress"
          ELSE ticket'.status = request'.new_status
               /\ response'.new_status = request'.new_status]_vars

\* a request to close the Open ticket with a response text has left it In
\* Progress
C20_Witness ==
    /\ request.handler = "admin_update_ticket_status"
    /\ response.code = 200
    /\ request.new_status = "Closed"
    /\ Truthy(request.response)
    /\ ticket.status = "In Progress"
    /\ response.new_status = "In Progress"

(***************************************************************************)
(* Flask_app.support_submit, one request at a time.  Order 1 is user 1's   *)
(* and order 2 is user 2's; there is no order 3.                           *)
(***************************************************************************)
MaxTickets == 2
MinMessageLength == 10

\* Order.usr_id by ord_id
OrderOwner == (1 :> 1) @@ (2 :> 2)

\* User.usr_id by email; nobody has the email "z"
UserOfEmail(email) == IF email = "a" THEN 1 ELSE 0

\* a text of n letters
Letters(n) == [i \in 1..n |-> "a"]

\* the text with blanks around it
Padded(s) == <<" ">> \o s \o <<" ", "\n">>

\* request.form.get('ord_id'): <<>> stands for a missing or empty field
FormIds ==
    { <<>>, <<"a", "b", "c">>, <<"0">>, <<"-", "1">>, <<"1">>, <<" ", "2">>,
      <<"3">> }

\* request.form.get('message'): <<>> stands for a missing or empty field
FormMessages ==
    { <<>>, Letters(9), Letters(10), Padded(Letters(8)), Padded(Letters(10)) }

\* int(v or 0) of a form field: blanks around the number and a sign are read,
\* any other text raises ValueError
FormInt(v) ==
    LET s == Strip(v)
        signed == Len(s) > 0 /\ s[1] \in {"-", "+"}
        digits == IF signed THEN Tail(s) ELSE s
    IN  IF Len(v) = 0 THEN [ok |-> TRUE, id |-> 0]
        ELSE IF Len(digits) = 0 \/ \E i \in 1..Len(digits) : ~IsDigit(digits[i])
        THEN [ok |-> FALSE, id |-> 0]
        ELSE [ok |-> TRUE,
              id |-> IF signed /\ s[1] = "-" THEN 0 - StrToInt(digits)
                     ELSE StrToInt(digits)]

\* a changed support_submit: the message is not trimmed
TrimmedMessage_Raw(message) == message

\* (request.form.get('message') or '').strip()
TrimmedMessage(message) == Strip(message)

\* the session and the form of a request; usr_id 0 stands for no usr_id in
\* the session
SupportRequests ==
    [handler : {"support_submit"}, Username : BOOLEAN, usr_id : {0, 1, 2},
     Email : {"None", "a", "z"}, ord_id : FormIds, message : FormMessages]

\* usr_id after lines 1637 to 1652, 0 when the request was sent to logout
Requester(req) ==
    IF req.usr_id # 0 THEN req.usr_id
    ELSE IF req.Email = "None" THEN 0
    ELSE UserOfEmail(req.Email)

\* where the request is sent back to
SupportOutcome(req) ==
    IF ~req.Username THEN "login"
    ELSE IF Requester(req) = 0 THEN "logout"
    ELSE IF ~FormInt(req.ord_id).ok THEN "invalid_order"
    ELSE IF FormInt(req.ord_id).id <= 0 THEN "invalid_order"
    ELSE IF Len(TrimmedMessage(req.message)) < MinMessageLength
    THEN "message_too_short"
    ELSE IF FormInt(req.ord_id).id \notin DOMAIN OrderOwner THEN "order_not_found"
    ELSE IF OrderOwner[FormInt(req.ord_id).id] # Requester(req) THEN "unauthorized"
    ELSE "ticket_success"

InitSupport ==
    /\ NoGenerator
    /\ NoWeb
    /\ fn_args = NoFn
    /\ fn_result = NoFn

support_submit ==
    /\ Len(tickets) < MaxTickets
    /\ \E req \in SupportRequests :
           LET outcome == SupportOutcome(req)
           IN  /\ request' = req
               /\ response' = [code |-> 302, location |-> outcome]
               /\ tickets' =
                      IF outcome = "ticket_success"
                      THEN Append(tickets,
                                  [usr_id |-> Requester(req),
                                   ord_id |-> FormInt(req.ord_id).id,
                                   message |-> TrimmedMessage(req.message),
                                   status |-> "Open"])
                      ELSE tickets
    /\ UNCHANGED <<generator, fn, stored, requests, order_status, updates,
                   ticket, inflight>>

SpecSupport == InitSupport /\ [][support_submit]_vars

\* the message has at least n characters between its first and its last
\* character that is no blank
LongEnough(message, n) ==
    \E i, j \in 1..Len(message) :
        /\ j - i + 1 >= n
        /\ ~IsSpace(message[i])
        /\ ~IsSpace(message[j])

\* the form's ord_id is the text of the number of an order of this user
OwnOrder(req) ==
    \/ Strip(req.ord_id) = <<"1">> /\ Requester(req) = 1
    \/ Strip(req.ord_id) = <<"2">> /\ Requester(req) = 2

\* C21: a request adds a row to Ticket exactly when it comes with a session
\* whose user is known, its ord_id is the number of an order of that user and
\* its message has at least 10 characters after trimming; the row is added
\* at the end with status 'Open', the user, the order and the trimmed
\* message; every other request leaves the Ticket table as it was, and no
\* request changes a row that is there
C21_TicketOnlyForOwnOrder ==
    /\ [][(request'.Username /\ Requester(request') # 0 /\ OwnOrder(request')
           /\ LongEnough(request'.message, 10))
          => (/\ Len(tickets') = Len(tickets) + 1
              /\ response'.location = "ticket_success"
              /\ tickets'[Len(tickets')].status = "Open"
              /\ tickets'[Len(tickets')].usr_id = Requester(request')
              /\ OrderOwner[tickets'[Len(tickets')].ord_id] = Requester(request')
              /\ tickets'[Len(tickets')].message = Strip(request'.message))]_vars
    /\ [][(~(request'.Username /\ Requester(request') # 0 /\ OwnOrder(request')
             /\ LongEnough(request'.message, 10)))
          => (tickets' = tickets /\ response'.location # "ticket_success")]_vars
    /\ [][\A k \in 1..Len(tickets) : tickets'[k] = tickets[k]]_vars

\* user 2, known by the session, has a ticket for order 2 whose message was
\* sent with blanks around its 10 letters, after a ticket of user 1
C21_Witness ==
    /\ Len(tickets) = 2
    /\ tickets[1].usr_id = 1
    /\ request.usr_id = 2
    /\ request.ord_id = <<" ", "2">>
    /\ request.message = Padded(Letters(10))
    /\ response.location = "ticket_success"
    /\ tickets[2] = [usr_id |-> 2, ord_id |-> 2, message |-> Letters(10),
                     status |-> "Open"]

Filtered ==
    Combined(menu_items, restaurants, allergens, current_weekday,
             get_meal_and_order_time(meal_numbers[m]))

\* C23: the candidates handed to the backend are min(n, K) items, n being
\* the number of rows the filters leave and K the number asked for; no item
\* is among them twice; each is the item of a row the filters leave; and
\* when n <= K they are the items of all these rows
C23_CandidatesAreMinOfBoth ==
    pc = "generate" =>
        LET rows == Filtered
            n == Len(rows)
            ids == {rows[k].itm_id : k \in 1..n}
        IN  /\ Len(item_ids) = IF n <= num_choices THEN n ELSE num_choices
            /\ \A i, j \in 1..Len(item_ids) : item_ids[i] = item_ids[j] => i = j
            /\ \A i \in 1..Len(item_ids) : item_ids[i] \in ids
            /\ n <= num_choices => \A id \in ids : id \in SeqRange(item_ids)

\* the filters leave all 11 loaded items and 10 of them are the candidates
C23_Witness ==
    /\ pc = "generate"
    /\ Len(Filtered) = 11
    /\ num_choices = 10
    /\ Len(item_ids) = 10

(***************************************************************************)
(* The date and the weekday of the day loop.                               *)
(***************************************************************************)
\* the days from 0001-01-01 to the date, counted year by year and month by
\* month
RECURSIVE DayNumber(_)
DayNumber(ymd) ==
    IF ymd[2] > 1
    THEN DayNumber(<<ymd[1], ymd[2] - 1, ymd[3]>>)
         + (IF ymd[2] - 1 = 2
            THEN (IF ymd[1] % 4 = 0 /\ (ymd[1] % 100 # 0 \/ ymd[1] % 400 = 0)
                  THEN 29 ELSE 28)
            ELSE IF ymd[2] - 1 \in {4, 6, 9, 11} THEN 30 ELSE 31)
    ELSE LET y == ymd[1] - 1
         IN  365 * y + (y \div 4) - (y \div 100) + (y \div 400) + ymd[3]

\* the weekday of a start date of the model, Monday being 0
StartWeekday(d) ==
    CASE d = <<"2", "0", "2", "5", "-", "1", "2", "-", "3", "1">> -> 2
      [] d = <<"2", "0", "2", "4", "-", "0", "2", "-", "2", "9">> -> 3
      [] d = <<"2", "0", "2", "5", "-", "1", "-", "5">> -> 6

\* the dates that follow the start dates of the model
DaysAfter(d, i) ==
    CASE d = <<"2", "0", "2", "5", "-", "1", "2", "-", "3", "1">> ->
             <<"2", "0", "2", "6", "-", "0", "1", "-", "0">> \o <<IntToStr(i)[1]>>
      [] d = <<"2", "0", "2", "4", "-", "0", "2", "-", "2", "9">> ->
             <<"2", "0", "2", "4", "-", "0", "3", "-", "0">> \o <<IntToStr(i)[1]>>
      [] d = <<"2", "0", "2", "5", "-", "1", "-", "5">> ->
             <<"2", "0", "2", "5", "-", "0", "1", "-", "0">> \o <<IntToStr(5 + i)[1]>>

\* C24: while update_menu runs, after x iterations of the day loop the date
\* is the start date plus x days (2026-01-01 after 2025-12-31, 2024-03-01
\* after 2024-02-29), next_date is the day after it, and the weekday handed
\* to the filters is the weekday of that date, which is the date written in
\* the entry of a slot that is filled; an iteration advances the date by
\* exactly one day
C24_DateAdvancesOneDay ==
    /\ [](InRun =>
              (/\ x \in 0..number_of_days
               /\ date = IF x = 0 THEN date_in ELSE DaysAfter(date_in, x)
               /\ next_date = DaysAfter(date_in, x + 1)
               /\ DayNumber(ParseDate(date)) = DayNumber(ParseDate(date_in)) + x
               /\ current_weekday = DAYS_OF_WEEK[((StartWeekday(date_in) + x) % 7) + 1]
               /\ DayNumber(ParseDate(date)) % 7 =
                      (StartWeekday(date_in) + x + 1) % 7))
    /\ [][(InRun /\ x' # x) =>
              (/\ x' = x + 1
               /\ DayNumber(ParseDate(date')) = DayNumber(ParseDate(date)) + 1
               /\ date' = next_date)]_vars
    /\ [][(InRun /\ menu' # menu) =>
              PlanHasEntry(menu', date, meal_numbers[m])]_vars

\* on the second day of a plan that starts on Wednesday 2025-12-31 an
\* attempt is made for Thursday 2026-01-01
C24_Witness ==
    /\ pc = "generate"
    /\ date_in = <<"2", "0", "2", "5", "-", "1", "2", "-", "3", "1">>
    /\ x = 1
    /\ date = <<"2", "0", "2", "6", "-", "0", "1", "-", "0", "1">>
    /\ current_weekday = "Thu"

(***************************************************************************)
(* The table a filter was given, after the call.                           *)
(***************************************************************************)
\* C25: after filter_allergens or filter_closed_restaurants has returned,
\* the table that was passed in holds the rows it held before the call
C25_ArgumentKeepsItsRows ==
    Returned => fn_result.argument = fn_args.table

\* filter_allergens has taken a row out of the table it was given
C25_RowLost ==
    /\ Returned
    /\ fn_args.fn = "filter_allergens"
    /\ Len(fn_result.argument) < Len(fn_args.table)

(***************************************************************************)
(* Requests admin_update_status refuses.                                   *)
(***************************************************************************)
\* one of the reasons for which a request is refused
Refused(req, status) ==
    \/ ~req.Username
    \/ ~req.is_admin
    \/ ~req.is_json
    \/ req.ord_id \in {"abc", "None"}
    \/ req.new_status \in {"", "None"}
    \/ req.new_status \notin {"Ordered", "Preparing", "Delivering", "Delivered"}
    \/ req.ord_id = "2"
    \/ <<IF status = "NULL" THEN "Ordered" ELSE status, req.new_status>> \notin
           { <<"Ordered", "Preparing">>, <<"Ordered", "Delivered">>,
             <<"Preparing", "Delivering">>, <<"Preparing", "Delivered">>,
             <<"Delivering", "Delivered">> }

\* C26: a request that is not logged in, not an admin's, not JSON, without
\* a positive ord_id, without a known new_status, for an order that is not
\* there, or for a transition that is not allowed, is answered with 400,
\* 401, 403 or 404 and leaves the stored status as it was; so does every
\* request that is not answered with 200
C26_RefusedLeavesStatus ==
    /\ [][Refused(request', order_status) =>
              (/\ response'.code \in {400, 401, 403, 404}
               /\ ~response'.ok
               /\ order_status' = order_status
               /\ updates' = updates)]_vars
    /\ [][(response'.code # 200) => (order_status' = order_status)]_vars

\* an admin's request to set the Preparing order back to Ordered was
\* answered with 400 and the order is still Preparing
C26_Witness ==
    /\ request.handler = "admin_update_status"
    /\ ReachesOrder(request)
    /\ request.new_status = "Ordered"
    /\ response.code = 400
    /\ order_status = "Preparing"
    /\ updates = 1

(***************************************************************************)
(* Flask_app.admin_update_status for several requests at once on the order *)
(* with ord_id 1, each in its own thread with its own connection.  The     *)
(* requests are those that pass the checks of lines 1231 to 1261.  The     *)
(* SELECT of line 1266 and the UPDATE of line 1281 are one step each; what *)
(* lies between them reads and writes locals only.                         *)
(***************************************************************************)
MaxConcurrent == 2

Threads == 1..MaxConcurrent

\* a thread that handles no request
NoThread == [at |-> "none", new_status |-> "", current_status |-> "", code |-> 0]

InitRace ==
    /\ NoGenerator
    /\ fn_args = NoFn
    /\ fn_result = NoFn
    /\ generated_menu = <<>>
    /\ GeneratedMenu = <<>>
    /\ request = NoRequest
    /\ response = NoResponse
    /\ requests = 0
    /\ order_status \in {"NULL", "Ordered"}
    /\ updates = 0
    /\ ticket = [status |-> "Open", response |-> PyNone]
    /\ tickets = <<>>
    /\ inflight = [t \in Threads |-> NoThread]

\* lines 1231 to 1264: an admin's request for the order passed the checks
ReceiveStatusRequest(t) ==
    /\ inflight[t].at \in {"none", "answered"}
    /\ \E new_status \in SeqRange(VALID_STATUSES) :
           inflight' = [inflight EXCEPT ![t] =
                           [at |-> "select", new_status |-> new_status,
                            current_status |-> "", code |-> 0]]
    /\ UNCHANGED <<generator, fn, stored, request, response, requests,
                   order_status, updates, ticket, tickets>>

\* lines 1266 to 1271: the row is read
SelectStatus(t) ==
    /\ inflight[t].at = "select"
    /\ inflight' = [inflight EXCEPT ![t].at = "update",
                                    ![t].current_status = CurrentStatus(order_status)]
    /\ UNCHANGED <<generator, fn, stored, request, response, requests,
                   order_status, updates, ticket, tickets>>

\* lines 1273 to 1287: the transition is checked against what was read, and
\* the row is written
UpdateStatus(t) ==
    /\ inflight[t].at = "update"
    /\ LET code == IF is_valid_transition(inflight[t].current_status,
                                          inflight[t].new_status)
                   THEN 200 ELSE 400
       IN  /\ inflight' = [inflight EXCEPT ![t].at = "answered", ![t].code = code]
           /\ order_status' = StoredStatus(code, order_status, inflight[t].new_status)
    /\ UNCHANGED <<generator, fn, stored, request, response, requests, updates,
                   ticket, tickets>>

NextRace ==
    \E t \in Threads :
        \/ ReceiveStatusRequest(t)
        \/ SelectStatus(t)
        \/ UpdateStatus(t)

SpecRace == InitRace /\ [][NextRace]_vars

\* C27: with requests running at once, every change of the stored status is
\* one of the five transitions of the table, and a Delivered order is not
\* changed again
C27_EveryChangeAllowed ==
    /\ [][(order_status' # order_status) =>
              (<<CurrentStatus(order_status), order_status'>> \in
                   { <<"Ordered", "Preparing">>, <<"Ordered", "Delivered">>,
                     <<"Preparing", "Delivering">>, <<"Preparing", "Delivered">>,
                     <<"Delivering", "Delivered">> })]_vars
    /\ [][(order_status = "Delivered") => (order_status' = "Delivered")]_vars

\* a request that read the order as Ordered has set it to Preparing after
\* another request had set it to Delivered
C27_DeliveredSetBack ==
    /\ order_status = "Preparing"
    /\ \E t, u \in Threads :
           /\ inflight[t] = [at |-> "answered", new_status |-> "Preparing",
                             current_status |-> "Ordered", code |-> 200]
           /\ inflight[u] = [at |-> "answered", new_status |-> "Delivered",
                             current_status |-> "Ordered", code |-> 200]

(***************************************************************************)
(* Hours that cannot be read.                                              *)
(***************************************************************************)
\* the rows whose hours are NULL, empty, text that does not start with '{',
\* or text that starts with '{' and is not JSON
UnreadableRows ==
    {i \in 1..Len(fn_args.table) :
        \/ fn_args.table[i].hours = HoursNone
        \/ fn_args.table[i].hours = HoursEmpty
        \/ fn_args.table[i].hours = HoursText
        \/ fn_args.table[i].hours = HoursBadJson}

\* C28: filter_closed_restaurants returns a table for every input, and a row
\* whose hours are NULL, empty, not starting with '{', or starting with '{'
\* and not JSON is in it as it was passed in, whatever the weekday and time
C28_UnreadableHoursKept ==
    (fn_args.fn = "filter_closed_restaurants" /\ fn_result # NoFn) =>
        /\ Returned
        /\ \A i \in UnreadableRows :
               \E k \in 1..Len(fn_result.value) :
                   fn_result.value[k] = fn_args.table[i]

\* a restaurant whose hours start with '{' and are not JSON is all that is
\* left, the other having no list for the weekday
C28_Witness ==
    /\ fn_args.fn = "filter_closed_restaurants"
    /\ Returned
    /\ fn_args.table[2].hours = HoursBadJson
    /\ 1 \in JsonRows
    /\ fn_result.value = <<fn_args.table[2]>>

(***************************************************************************)
(* A generator constructed from a database in which restaurant 4 is the    *)
(* only one with items: on most days and at most times the filters leave   *)
(* no row.                                                                 *)
(***************************************************************************)
DbSparse == SelectSeq(DbMenuItem, LAMBDA r : r.rtr_id = 4)

InitSparse ==
    /\ menu_items = LoadMenuItems(DbSparse)
    /\ restaurants = LoadRestaurants(DbRestaurant)
    /\ provider \in {"openai", "local"}
    /\ failed_over = FALSE
    /\ pc = "idle"
    /\ menu = <<>> /\ allergens = <<>> /\ date = <<>> /\ next_date = <<>>
    /\ meal_numbers = <<>> /\ item_ids = <<>> /\ llm_output = <<>>
    /\ menu_in = <<>> /\ date_in = <<>> /\ last_raw = <<>>
    /\ current_weekday = ""
    /\ number_of_days = 0 /\ x = 0 /\ num_choices = 0 /\ tries = 0
    /\ slot_calls = 0 /\ run_calls = 0
    /\ m = 1
    /\ error = NoError
    /\ rerun = FALSE
    /\ fn_args = NoFn
    /\ fn_result = NoFn
    /\ NoWeb

SpecSparse == InitSparse /\ [][Next]_vars

\* an attempt whose candidate list is empty has reached the backend
EmptyAttempt == pc \in {"generate", "validate"} /\ item_ids = <<>>

\* the filters leave no row exactly when the attempt has no candidates, and
\* such an attempt goes on to the backend and to the check of its answer
NoShortCircuit ==
    /\ [](pc = "generate" => (item_ids = <<>> <=> Len(Filtered) = 0))
    /\ [][(EmptyAttempt /\ pc = "generate" /\ pc' # "raised") =>
              (/\ pc' = "validate"
               /\ slot_calls' = slot_calls + 1
               /\ item_ids' = <<>>)]_vars
    /\ [][(EmptyAttempt /\ pc = "validate") =>
              (/\ menu' = menu
               /\ m' = m
               /\ IF slot_calls < 3
                  THEN pc' = "context" /\ slot_calls' = slot_calls
                  ELSE pc' = "raised")]_vars

\* C29 as stated: with no candidates the slot ends in one way only, by the
\* RuntimeError that follows the third rejected answer
C29_EmptyEndsInRuntimeError ==
    /\ NoShortCircuit
    /\ [][(EmptyAttempt /\ pc' \notin {"context", "generate", "validate"}) =>
              (/\ pc = "validate"
               /\ slot_calls = 3
               /\ pc' = "raised"
               /\ error'.kind = "RuntimeError")]_vars

\* C29: with no candidates the backend is still called, every answer it
\* gives is rejected, and the slot is neither skipped nor filled: it ends by
\* the RuntimeError that follows the third rejected answer, or earlier by
\* the exception of a generate call
C29_EmptyEndsInError ==
    /\ NoShortCircuit
    /\ [][(EmptyAttempt /\ pc' \notin {"context", "generate", "validate"}) =>
              (/\ pc' = "raised"
               /\ menu' = menu
               /\ m' = m
               /\ \/ (pc = "validate" /\ slot_calls = 3
                      /\ error'.kind = "RuntimeError")
                  \/ (pc = "generate" /\ slot_calls < 3
                      /\ error'.kind = "BackendError"))]_vars

\* the third answer for a slot without candidates is the id of an item of
\* the catalog, and it is about to be rejected
C29_Witness ==
    /\ pc = "validate"
    /\ item_ids = <<>>
    /\ tries = 2
    /\ slot_calls = 3
    /\ llm_output = <<"1", "1", "\n">>

(***************************************************************************)
(* The provider after a hosted call has raised.                            *)
(***************************************************************************)
\* C30: once a hosted call of the generator has raised, its provider is
\* 'local' in every later state, in this call of update_menu and in later
\* ones, so every later generate call is a local one and no second failover
\* happens; and a generate call that raises is the last step of update_menu:
\* it is a call of the local model, nothing is retried, and the plan is as
\* it was
C30_FailoverSticky ==
    /\ [](failed_over => provider = "local")
    /\ [][(provider = "local") =>
              (provider' = "local" /\ failed_over' = failed_over)]_vars
    /\ [][failed_over => failed_over']_vars
    /\ [][(pc = "generate" /\ pc' = "raised") =>
              (/\ provider' = "local"
               /\ error'.kind = "BackendError"
               /\ slot_calls' = slot_calls + 1
               /\ menu' = menu)]_vars
    /\ [][(pc = "raised") => (pc' = "idle" /\ provider' = provider)]_vars

\* in a call of update_menu that has made no generate call yet, the
\* generator whose hosted call raised in an earlier call is about to call
\* the local model
C30_Witness ==
    /\ pc = "generate"
    /\ failed_over
    /\ provider = "local"
    /\ run_calls = 0

====
